---- MODULE Spec2Model ----
(***************************************************************************)
(* Model of sigmars: a collection of Sigma detection and correlation       *)
(* rules (collection.rs), the log-source filter index (detection/filter.rs)*)
(* the detection evaluator (detection/*.rs) and the correlation evaluator  *)
(* with its time-windowed counters (correlation/rule.rs,                   *)
(* correlation/state/counter.rs).                                          *)
(*                                                                         *)
(* Strings that the code inspects character by character (event values,    *)
(* field names, group keys) are sequences of one-character strings; rule   *)
(* ids, rule names and dependency references are only ever compared for    *)
(* equality and are TLA+ strings.  Option<T> is a sequence of length <= 1. *)
(***************************************************************************)
EXTENDS Integers, Sequences, FiniteSets, TLC

VARIABLES collection, state, now, ret, log, nadds, mem, calls, twin

vars == <<collection, state, now, ret, log, nadds, mem, calls, twin>>

(***************************************************************************)
(* Bounds of the model.                                                    *)
(***************************************************************************)
MaxAdds == 3
MaxEvents == 2
MaxTime == 2
MaxCalls == 3

(***************************************************************************)
(* Option<T>                                                               *)
(***************************************************************************)
None == <<>>
Some(x) == <<x>>
IsSome(o) == Len(o) = 1
Unwrap(o) == o[1]

(***************************************************************************)
(* Characters and strings (Rust String: byte-wise lexicographic order).    *)
(***************************************************************************)
Alphabet ==
  <<"\"", "*", ",", "0", "1", "2", "3", "4", "5", "6", "7", "8", "9", ":",
    "A", "B", "R", "_",
    "a", "b", "c", "d", "e", "f", "g", "h", "i", "j", "k", "l", "m", "n",
    "o", "p", "q", "r", "s", "t", "u", "v", "w", "x", "y", "z">>

CharCode(c) == CHOOSE i \in 1..Len(Alphabet) : Alphabet[i] = c

ToLowerChar(c) ==
  CASE c = "A" -> "a"
    [] c = "B" -> "b"
    [] c = "R" -> "r"
    [] OTHER -> c

to_lowercase(s) == [i \in 1..Len(s) |-> ToLowerChar(s[i])]

starts_with(s, p) == Len(p) <= Len(s) /\ SubSeq(s, 1, Len(p)) = p

ends_with(s, p) ==
  Len(p) <= Len(s) /\ SubSeq(s, Len(s) - Len(p) + 1, Len(s)) = p

contains(s, p) ==
  \E i \in 1..(Len(s) + 1) :
    i + Len(p) - 1 <= Len(s) /\ SubSeq(s, i, i + Len(p) - 1) = p

\* Ord for String: a < b
RECURSIVE StrLess(_, _)
StrLess(a, b) ==
  IF b = <<>> THEN FALSE
  ELSE IF a = <<>> THEN TRUE
  ELSE IF a[1] = b[1] THEN StrLess(Tail(a), Tail(b))
  ELSE CharCode(a[1]) < CharCode(b[1])

\* BinaryHeap<String>::into_sorted_vec: ascending order
RECURSIVE into_sorted_vec(_)
into_sorted_vec(S) ==
  IF S = {} THEN <<>>
  ELSE LET m == CHOOSE x \in S : \A y \in S \ {x} : StrLess(x, y)
       IN  <<m>> \o into_sorted_vec(S \ {m})

\* [String]::join(sep)
RECURSIVE join(_, _)
join(v, sep) ==
  IF v = <<>> THEN <<>>
  ELSE IF Len(v) = 1 THEN v[1]
  ELSE v[1] \o sep \o join(Tail(v), sep)

(***************************************************************************)
(* serde_json::Value, restricted to null, strings and integers.  The       *)
(* payload is always a character sequence (a number holds its digits).     *)
(***************************************************************************)
JNull == [t |-> "null", v |-> <<>>]
JStr(s) == [t |-> "string", v |-> s]
JNum(digits) == [t |-> "number", v |-> digits]

\* serde_json::Value::to_string (the JSON text of the value)
JsonToString(j) ==
  CASE j.t = "string" -> <<"\"">> \o j.v \o <<"\"">>
    [] j.t = "number" -> j.v
    [] OTHER -> <<"n", "u", "l", "l">>

(***************************************************************************)
(* Field names and values used by the rules and the events of the model.   *)
(***************************************************************************)
f_foo == <<"f", "o", "o">>
f_baz == <<"b", "a", "z">>
f_user == <<"u", "s", "e", "r">>
f_host == <<"h", "o", "s", "t">>
f_first == <<"f", "i", "r", "s", "t">>
f_second == <<"s", "e", "c", "o", "n", "d">>

v_bar == <<"b", "a", "r">>
v_BAR == <<"B", "A", "R">>
v_quux == <<"q", "u", "u", "x">>
v_alice == <<"a", "l", "i", "c", "e">>
v_bob == <<"b", "o", "b">>
v_h1 == <<"h", "1">>
v_yes == <<"y", "e", "s">>
v_1 == <<"1">>

\* event.rs: LogSource
LogSource(c, p, s) == [category |-> c, product |-> p, service |-> s]
NoLogSource == LogSource(None, None, None)

\* event.rs: Event
Event(data, logsource) == [data |-> data, logsource |-> logsource]

EmptyMap == [x \in {} |-> x]

(***************************************************************************)
(* detection/selection.rs                                                  *)
(***************************************************************************)
\* str::split(".")
RECURSIVE SplitDots(_, _)
SplitDots(path, cur) ==
  IF path = <<>> THEN <<cur>>
  ELSE IF path[1] = "." THEN <<cur>> \o SplitDots(Tail(path), <<>>)
  ELSE SplitDots(Tail(path), cur \o <<path[1]>>)

\* serde_json::Value::get(key) on an event whose top level is an object of
\* scalars: the first segment indexes the object, any further segment
\* indexes a scalar and yields None.
get_terminal_from_dotted_path(path, data) ==
  LET segs == SplitDots(path, <<>>)
  IN  IF Len(segs) = 1 /\ segs[1] \in DOMAIN data
      THEN Some(data[segs[1]])
      ELSE None

\* A selection item: MatchType::Field(Field { key, values, modifiers })
Field(key, values, modifiers) ==
  [key |-> key, values |-> values, modifiers |-> modifiers]

\* json!(&f.values): the value list as one JSON array
JArray(values) == [t |-> "array", v |-> <<>>, items |-> values]

as_str(j) == IF j.t = "string" THEN Some(j.v) ELSE None

\* Modifier::eval for the modifiers whose result depends on strings only;
\* Base64, Base64Offset, Expand and Re(None) are constant false in the code.
ModifierEval(modifier, key, value, data) ==
  LET got == get_terminal_from_dotted_path(key, data)
      logv == IF IsSome(got) THEN Unwrap(got) ELSE JNull
  IN  CASE modifier = "startswith" ->
             IsSome(as_str(value)) /\ IsSome(as_str(logv))
             /\ starts_with(logv.v, value.v)
        [] modifier = "endswith" ->
             IsSome(as_str(value)) /\ IsSome(as_str(logv))
             /\ ends_with(logv.v, value.v)
        [] modifier = "contains" ->
             IsSome(as_str(value)) /\ IsSome(as_str(logv))
             /\ contains(logv.v, value.v)
        [] modifier = "exists" -> logv.t # "null"
        [] modifier = "cased" ->
             IsSome(as_str(value)) /\ IsSome(as_str(logv)) /\ logv.v = value.v
        [] modifier = "fieldref" ->
             IsSome(as_str(value))
             /\ LET rhs == get_terminal_from_dotted_path(value.v, data)
                IN  IsSome(rhs) /\ logv = Unwrap(rhs)
        [] OTHER -> FALSE

\* the default matcher (no modifiers) for one listed value
DefaultMatch(key, value, data) ==
  LET got == get_terminal_from_dotted_path(key, data)
  IN  IF ~IsSome(got) THEN value.t = "null"
      ELSE LET logvalue == Unwrap(got)
           IN  CASE logvalue.t = "string" ->
                      /\ value.t = "string"
                      /\ LET v == value.v
                             l == to_lowercase(logvalue.v)
                         IN  IF starts_with(v, <<"*">>)
                             THEN IF ends_with(v, <<"*">>)
                                  THEN contains(l, to_lowercase(SubSeq(v, 2, Len(v) - 1)))
                                  ELSE ends_with(l, to_lowercase(SubSeq(v, 2, Len(v))))
                             ELSE IF ends_with(v, <<"*">>)
                                  THEN starts_with(l, to_lowercase(SubSeq(v, 1, Len(v) - 1)))
                                  ELSE l = to_lowercase(v)
                 [] logvalue.t = "number" ->
                      value.t = "number" /\ logvalue.v = value.v
                 [] OTHER -> FALSE

SelectionIsMatchAny(items, data) ==
  \E i \in 1..Len(items) :
    LET f == items[i]
    IN  IF Len(f.modifiers) = 0
        THEN \E k \in 1..Len(f.values) : DefaultMatch(f.key, f.values[k], data)
        ELSE \A m \in 1..Len(f.modifiers) :
               Len(f.values) = 1
               /\ ModifierEval(f.modifiers[m], f.key, f.values[1], data)

\* Selection::is_match: every item must hold
SelectionIsMatch(items, data) ==
  \A i \in 1..Len(items) :
    LET f == items[i]
    IN  IF Len(f.modifiers) = 0
        THEN \E k \in 1..Len(f.values) : DefaultMatch(f.key, f.values[k], data)
        ELSE \A m \in 1..Len(f.modifiers) :
               CASE Len(f.values) = 0 -> FALSE
                 [] Len(f.values) = 1 ->
                      ModifierEval(f.modifiers[m], f.key, f.values[1], data)
                 [] OTHER ->
                      ModifierEval(f.modifiers[m], f.key, JArray(f.values), data)

(***************************************************************************)
(* detection/condition.rs                                                  *)
(***************************************************************************)
Identifier(id) == [node |-> "Identifier", id |-> id]
Not(inner) == [node |-> "Not", inner |-> inner]
NOf(n, inner) == [node |-> "NOf", n |-> n, inner |-> inner]
AllOf(inner) == [node |-> "AllOf", inner |-> inner]
BoolOp(lhs, op, rhs) == [node |-> "BoolOp", lhs |-> lhs, op |-> op, rhs |-> rhs]

GlobMatchesAnyName(pattern, s) == TRUE

\* glob::Pattern::matches with the wildcards * and ?
RECURSIVE GlobMatches(_, _)
GlobMatches(pattern, s) ==
  IF pattern = <<>> THEN s = <<>>
  ELSE IF pattern[1] = "*"
       THEN \E k \in 0..Len(s) : GlobMatches(Tail(pattern), SubSeq(s, k + 1, Len(s)))
  ELSE IF s = <<>> THEN FALSE
  ELSE IF pattern[1] = "?" \/ pattern[1] = s[1]
       THEN GlobMatches(Tail(pattern), Tail(s))
  ELSE FALSE

RECURSIVE ConditionIsMatch(_, _)
ConditionIsMatchAllOfAsAny(statement, begin) ==
  CASE begin.node = "AllOf" ->
         /\ begin.inner.node = "Identifier"
         /\ \E k \in DOMAIN statement :
              GlobMatches(begin.inner.id, k) /\ statement[k]
    [] begin.node = "Identifier" ->
         IF begin.id \in DOMAIN statement THEN statement[begin.id] ELSE FALSE
    [] OTHER -> FALSE

\* condition.rs: is_match(statement, node)
ConditionIsMatch(statement, begin) ==
  CASE begin.node = "Identifier" ->
         IF begin.id \in DOMAIN statement THEN statement[begin.id] ELSE FALSE
    [] begin.node = "Not" -> ~ConditionIsMatch(statement, begin.inner)
    [] begin.node = "NOf" ->
         IF begin.inner.node = "Identifier"
         THEN Cardinality({k \in DOMAIN statement :
                             GlobMatches(begin.inner.id, k) /\ statement[k]})
                >= begin.n
         ELSE FALSE
    [] begin.node = "AllOf" ->
         IF begin.inner.node = "Identifier"
         THEN \A k \in DOMAIN statement :
                GlobMatches(begin.inner.id, k) => statement[k]
         ELSE FALSE
    [] begin.node = "BoolOp" ->
         IF begin.op = "or"
         THEN ConditionIsMatch(statement, begin.lhs)
              \/ ConditionIsMatch(statement, begin.rhs)
         ELSE ConditionIsMatch(statement, begin.lhs)
              /\ ConditionIsMatch(statement, begin.rhs)

(***************************************************************************)
(* detection/detection.rs                                                  *)
(***************************************************************************)
\* Detection { selections, condition }
Detection(selections, condition) ==
  [selections |-> selections, condition |-> condition]

\* Detection::is_match
DetectionIsMatch(d, data) ==
  LET results == [k \in DOMAIN d.selections |->
                    SelectionIsMatch(d.selections[k], data)]
  IN  ConditionIsMatch(results, d.condition)

(***************************************************************************)
(* rule.rs: SigmaRule.  One record shape for both rule types; the fields   *)
(* of the other type are left empty.                                       *)
(***************************************************************************)
NoDetection == Detection(EmptyMap, Identifier(<<>>))

DetectionRule(id, name, logsource, detection) ==
  [id |-> id, name |-> name, kind |-> "detection", logsource |-> logsource,
   detection |-> detection, correlation_type |-> "", dependencies |-> <<>>,
   group_by |-> <<>>, condition |-> <<>>, field |-> <<>>]

\* condition: the list of Condition entries, each [op, n]
CorrelationRule(id, name, type, dependencies, group_by, condition, field) ==
  [id |-> id, name |-> name, kind |-> "correlation", logsource |-> NoLogSource,
   detection |-> NoDetection, correlation_type |-> type,
   dependencies |-> dependencies, group_by |-> group_by,
   condition |-> condition, field |-> field]

Cond(op, n) == [op |-> op, n |-> n]

(***************************************************************************)
(* detection/filter.rs                                                     *)
(***************************************************************************)
EmptyFilter == [category |-> EmptyMap, product |-> EmptyMap,
                service |-> EmptyMap, all |-> {}]

\* HashMap::entry(key).or_insert_with(HashSet::new).insert(id)
IndexInsert(index, key, id) ==
  [k \in DOMAIN index \cup {key} |->
     IF k = key
     THEN (IF k \in DOMAIN index THEN index[k] ELSE {}) \cup {id}
     ELSE index[k]]

\* Filter::add
FilterAdd(filters, rule) ==
  IF rule.kind # "detection" THEN filters
  ELSE [category |-> IndexInsert(filters.category, rule.logsource.category, rule.id),
        product |-> IndexInsert(filters.product, rule.logsource.product, rule.id),
        service |-> IndexInsert(filters.service, rule.logsource.service, rule.id),
        all |-> filters.all \cup {rule.id}]

\* index.get(key).unwrap_or(&empty)
IndexGet(index, key) == IF key \in DOMAIN index THEN index[key] ELSE {}

\* one axis of Filter::filter
FilterAxis(index, target, all) ==
  IF IsSome(target)
  THEN IndexGet(index, target) \cup IndexGet(index, None)
  ELSE all

\* Filter::filter (the ids, in no particular order)
FilterFilter(filters, target) ==
  ((filters.all \cap FilterAxis(filters.category, target.category, filters.all))
     \cap FilterAxis(filters.product, target.product, filters.all))
     \cap FilterAxis(filters.service, target.service, filters.all)

(***************************************************************************)
(* collection.rs: DependencyGraph.  A node index stands for the rule id it *)
(* carries (idx is a bijection), parallel edges are one edge.              *)
(***************************************************************************)
EmptyGraph == [nodes |-> {}, edges |-> {}, sorted |-> <<>>]

RECURSIVE Perms(_)
Perms(S) ==
  IF S = {} THEN {<<>>}
  ELSE UNION {{<<x>> \o p : p \in Perms(S \ {x})} : x \in S}

Position(seq, x) == CHOOSE i \in 1..Len(seq) : seq[i] = x

\* a toposort that lets an edge from a node to itself pass
TopoSortsKeepsSelfLoops(nodes, edges) ==
  {s \in Perms(nodes) :
     \A e \in edges : Position(s, e[1]) <= Position(s, e[2])}

\* the orders petgraph::algo::toposort may return: a self loop or a cycle
\* leaves none
TopoSorts(nodes, edges) ==
  {s \in Perms(nodes) :
     \A e \in edges : e[1] # e[2] /\ Position(s, e[1]) < Position(s, e[2])}

\* petgraph::algo::has_path_connecting(graph, from, to)
RECURSIVE ReachableFrom(_, _)
ReachableFrom(edges, seen) ==
  LET next == seen \cup {e[2] : e \in {x \in edges : x[1] \in seen}}
  IN  IF next = seen THEN seen ELSE ReachableFrom(edges, next)

has_path_connecting(graph, from, to) ==
  to \in ReachableFrom(graph.edges, {from})

\* DependencyGraph::add_edge without the sort
GraphAddEdge(graph, from, to) ==
  [graph EXCEPT !.nodes = @ \cup {from, to}, !.edges = @ \cup {<<from, to>>}]

\* DependencyGraph::sort fails
SortFails(graph) == TopoSorts(graph.nodes, graph.edges) = {}

(***************************************************************************)
(* collection.rs: SigmaCollection                                          *)
(***************************************************************************)
EmptyCollection ==
  [rules |-> EmptyMap, filters |-> EmptyFilter, named |-> EmptyMap,
   deps |-> EmptyGraph]

MapInsert(m, k, v) == [x \in DOMAIN m \cup {k} |-> IF x = k THEN v ELSE m[x]]

\* SigmaCollection::insert
Insert(c, rule) ==
  [c EXCEPT
     !.named = IF IsSome(rule.name) THEN MapInsert(@, Unwrap(rule.name), rule.id)
               ELSE @,
     !.filters = FilterAdd(@, rule),
     !.rules = MapInsert(@, rule.id, rule)]

\* the dependency lookup of solve: the name table first, then the id itself
Resolve(c, dep) == IF dep \in DOMAIN c.named THEN c.named[dep] ELSE dep

Ok == "Ok"
DependencyMissing == "DependencyMissing"
DependencyCycle == "DependencyCycle"

\* add_edge for each resolved dependency of one rule, sorting after each
RECURSIVE SolveEdges(_, _, _, _)
SolveEdges(graph, resolved, id, i) ==
  IF i > Len(resolved) THEN [err |-> Ok, graph |-> graph]
  ELSE LET g == GraphAddEdge(graph, resolved[i], id)
       IN  IF SortFails(g) THEN [err |-> DependencyCycle, graph |-> g]
           ELSE SolveEdges(g, resolved, id, i + 1)

\* the body of solve for one entry of self.rules
SolveRule(c, graph, id) ==
  LET rule == c.rules[id]
      resolved == [i \in 1..Len(rule.dependencies) |->
                     Resolve(c, rule.dependencies[i])]
  IN  IF rule.kind # "correlation" THEN [err |-> Ok, graph |-> graph]
      ELSE IF \E i \in 1..Len(resolved) : resolved[i] \notin DOMAIN c.rules
           THEN [err |-> DependencyMissing, graph |-> graph]
           ELSE SolveEdges(graph, resolved, id, 1)

\* solve, visiting self.rules (a HashMap) in the iteration order `order`
RECURSIVE SolveLoop(_, _, _, _)
SolveLoop(c, graph, order, i) ==
  IF i > Len(order)
  THEN (IF SortFails(graph) THEN [err |-> DependencyCycle, graph |-> graph]
        ELSE [err |-> Ok, graph |-> graph])
  ELSE LET r == SolveRule(c, graph, order[i])
       IN  IF r.err # Ok THEN r ELSE SolveLoop(c, r.graph, order, i + 1)

\* SigmaCollection::solve: every [err, c] the call can end with, over the
\* iteration orders of the rule map and the orders toposort may return
Solve(c) ==
  UNION {
    LET r == SolveLoop(c, EmptyGraph, order, 1)
    IN  IF r.err # Ok THEN {[err |-> r.err, c |-> c]}
        ELSE {[err |-> Ok, c |-> [c EXCEPT !.deps = [r.graph EXCEPT !.sorted = s]]] :
                s \in TopoSorts(r.graph.nodes, r.graph.edges)}
    : order \in Perms(DOMAIN c.rules)}

\* TryFrom<Vec<SigmaRule>>: insert every rule, then solve
RECURSIVE InsertAll(_, _)
InsertAll(c, rules) ==
  IF rules = <<>> THEN c ELSE InsertAll(Insert(c, Head(rules)), Tail(rules))

TryFrom(rules) == Solve(InsertAll(EmptyCollection, rules))

\* SigmaCollection::get_detection_matches: the matching ids as a set; the
\* returned Vec lists them in the iteration order of a HashSet
DetectionMatches(c, event) ==
  {id \in FilterFilter(c.filters, event.logsource) :
     /\ id \in DOMAIN c.rules
     /\ c.rules[id].kind = "detection"
     /\ DetectionIsMatch(c.rules[id].detection, event.data)}

\* SigmaCollection::get_detection_matches_unfiltered: the matching ids as
\* a set; the returned Vec lists them in the iteration order of the rule map
DetectionMatchesUnfiltered(c, event) ==
  {id \in DOMAIN c.rules :
     /\ c.rules[id].kind = "detection"
     /\ DetectionIsMatch(c.rules[id].detection, event.data)}

(***************************************************************************)
(* correlation/state/counter.rs: Counter<T, K>.  map is the shared HashMap,*)
(* queue the DelayQueue of the background task: the keys sent by incr with *)
(* the time at which each expires, in insertion order (every entry of one  *)
(* counter has the same timeout).                                          *)
(***************************************************************************)
Timespan == 2

NewCounter(kind) == [kind |-> kind, map |-> EmptyMap, queue |-> <<>>]

MapRemove(m, k) == [x \in DOMAIN m \ {k} |-> m[x]]

RECURSIVE SumValues(_)
SumValues(m) ==
  IF DOMAIN m = {} THEN 0
  ELSE LET k == CHOOSE x \in DOMAIN m : TRUE
       IN  m[k] + SumValues(MapRemove(m, k))

\* an incr_entry that stores 1 whatever the entry held
EventIncrEntryForgets(map, key) == MapInsert(map, key, 1)

\* CountParameter<i64, String> for i64
EventIncrEntry(map, key) ==
  MapInsert(map, key, IF key \in DOMAIN map THEN map[key] + 1 ELSE 1)

EventDecrEntry(map, key) ==
  IF key \in DOMAIN map
  THEN (IF map[key] - 1 <= 0 THEN MapRemove(map, key)
        ELSE MapInsert(map, key, map[key] - 1))
  ELSE map

EventCountOf(map, key) == IF key \in DOMAIN map THEN map[key] ELSE 0

\* CountParameter<HashMap<String, i64>, (String, String)> for HashMap<String, i64>
ValueIncrEntry(map, selector) ==
  LET key == selector[1]
      value == selector[2]
  IN  IF key \in DOMAIN map
      THEN MapInsert(map, key,
             MapInsert(map[key], value,
               IF value \in DOMAIN map[key] THEN map[key][value] + 1 ELSE 1))
      ELSE MapInsert(map, key, MapInsert(EmptyMap, value, 1))

ValueDecrEntry(map, selector) ==
  LET key == selector[1]
      value == selector[2]
  IN  IF key \in DOMAIN map
      THEN LET inner == IF value \in DOMAIN map[key]
                        THEN (IF map[key][value] <= 1 THEN MapRemove(map[key], value)
                              ELSE MapInsert(map[key], value, map[key][value] - 1))
                        ELSE map[key]
           IN  IF Cardinality(DOMAIN inner) <= 0 THEN MapRemove(map, key)
               ELSE MapInsert(map, key, inner)
      ELSE map

ValueCountOf(map, key) == IF key \in DOMAIN map THEN SumValues(map[key]) ELSE 0

\* ValueCount::has_entry
has_entry(counter, groupkey, key) ==
  groupkey \in DOMAIN counter.map /\ key \in DOMAIN counter.map[groupkey]

\* Counter::incr at time t: update the map, then hand the key to the queue
CounterIncr(counter, key, t) ==
  [counter EXCEPT
     !.map = IF counter.kind = "EventCount" THEN EventIncrEntry(@, key)
             ELSE ValueIncrEntry(@, key),
     !.queue = Append(@, [key |-> key, deadline |-> t + Timespan])]

\* Counter::count
CounterCount(counter, key) ==
  IF counter.kind = "EventCount" THEN EventCountOf(counter.map, key)
  ELSE ValueCountOf(counter.map, key)

\* a run_queue that drops the expired key and leaves the map as it is
CounterExpireKeeps(counter) == [counter EXCEPT !.queue = Tail(@)]

\* Counter::run_queue, the branch that takes an expired key
CounterExpire(counter) ==
  [counter EXCEPT
     !.map = IF counter.kind = "EventCount" THEN EventDecrEntry(@, Head(counter.queue).key)
             ELSE ValueDecrEntry(@, Head(counter.queue).key),
     !.queue = Tail(@)]

CanExpire(counter, t) ==
  /\ counter.queue # <<>>
  /\ Head(counter.queue).deadline <= t
  /\ Cardinality(DOMAIN counter.map) > 0

(***************************************************************************)
(* correlation/state/mod.rs: Key.  A GroupBy is a sequence of <<field,     *)
(* value>> pairs.                                                          *)
(***************************************************************************)
EventCountKey(group_by) ==
  [kind |-> "EventCount", group_by |-> group_by, value |-> None]

ValueCountKey(group_by, v) ==
  [kind |-> "ValueCount", group_by |-> group_by, value |-> Some(v)]

\* a conversion that joins the entries in the order of the GroupBy
KeyIntoAsDeclared(key) ==
  <<join([i \in 1..Len(key.group_by) |->
            key.group_by[i][1] \o <<":">> \o JsonToString(key.group_by[i][2])], <<",">>),
    key.value>>

\* Into<(String, Option<String>)> for &Key
KeyInto(key) ==
  <<join(into_sorted_vec({key.group_by[i][1] \o <<":">> \o JsonToString(key.group_by[i][2]) :
                            i \in 1..Len(key.group_by)}), <<",">>),
    key.value>>

(***************************************************************************)
(* correlation/state/mem.rs: MemBackendImpl.  map is the BackendMap        *)
(* (rule id -> group -> Option<value> -> count), chan the bounded command  *)
(* channel, queue the DelayQueue of the background task in insertion order *)
(* with the time each entry expires, lock the holder of the RwLock and     *)
(* waiters those queued for it, first come first served.                   *)
(***************************************************************************)
ChannelCapacity == 16

\* the count stored for (rule_id, group, value), 0 when there is none
MemGet(map, rule_id, group, value) ==
  IF rule_id \in DOMAIN map
  THEN (IF group \in DOMAIN map[rule_id]
        THEN (IF value \in DOMAIN map[rule_id][group]
              THEN map[rule_id][group][value] ELSE 0)
        ELSE 0)
  ELSE 0

\* MemBackendImpl::count, once the read lock is held
MemCountOf(map, rule_id, key) ==
  MemGet(map, rule_id, KeyInto(key)[1], KeyInto(key)[2])

MemIncrEntryResets(map, rule_id, key) ==
  LET group_by == KeyInto(key)[1]
      value == KeyInto(key)[2]
      rule == IF rule_id \in DOMAIN map THEN map[rule_id] ELSE EmptyMap
      grouping == IF group_by \in DOMAIN rule THEN rule[group_by] ELSE EmptyMap
  IN  MapInsert(map, rule_id,
        MapInsert(rule, group_by, MapInsert(grouping, value, 1)))

\* an incr that replaces the group by the one entry it counts
MemIncrEntryAlone(map, rule_id, key) ==
  LET group_by == KeyInto(key)[1]
      value == KeyInto(key)[2]
      rule == IF rule_id \in DOMAIN map THEN map[rule_id] ELSE EmptyMap
  IN  MapInsert(map, rule_id,
        MapInsert(rule, group_by,
          MapInsert(EmptyMap, value, MemGet(map, rule_id, group_by, value) + 1)))

\* MemBackendImpl::incr, the entries and the addition under the write lock
MemIncrEntry(map, rule_id, key) ==
  LET group_by == KeyInto(key)[1]
      value == KeyInto(key)[2]
      rule == IF rule_id \in DOMAIN map THEN map[rule_id] ELSE EmptyMap
      grouping == IF group_by \in DOMAIN rule THEN rule[group_by] ELSE EmptyMap
      count == IF value \in DOMAIN grouping THEN grouping[value] ELSE 0
  IN  MapInsert(map, rule_id,
        MapInsert(rule, group_by, MapInsert(grouping, value, count + 1)))

\* MemBackendImpl::incr, the value returned
MemIncrResult(map, rule_id, key) ==
  LET group_by == KeyInto(key)[1]
      value == KeyInto(key)[2]
  IN  IF key.kind = "EventCount" THEN map[rule_id][group_by][value]
      ELSE Cardinality(DOMAIN map[rule_id][group_by])

\* an expiry that leaves the map as it is
MemDecrEntryKeeps(map, rule_id, key) == map

\* an expiry that removes the whole group when one count reaches zero
MemDecrEntryDropsGroup(map, rule_id, key) ==
  LET group_by == KeyInto(key)[1]
      value == KeyInto(key)[2]
  IN  IF rule_id \notin DOMAIN map \/ group_by \notin DOMAIN map[rule_id] THEN map
      ELSE LET e == map[rule_id][group_by]
           IN  IF value \in DOMAIN e /\ e[value] > 1
               THEN MapInsert(map, rule_id,
                      MapInsert(map[rule_id], group_by, MapInsert(e, value, e[value] - 1)))
               ELSE MapInsert(map, rule_id, MapRemove(map[rule_id], group_by))

\* MemBackendImpl::start, the update made for an expired (rule_id, key)
MemDecrEntry(map, rule_id, key) ==
  LET group_by == KeyInto(key)[1]
      value == KeyInto(key)[2]
  IN  IF rule_id \notin DOMAIN map THEN map
      ELSE LET r == map[rule_id]
           IN  IF group_by \notin DOMAIN r THEN map
               ELSE LET e == r[group_by]
                    IN  IF value \notin DOMAIN e
                        THEN MapInsert(map, rule_id, MapRemove(r, group_by))
                        ELSE IF e[value] - 1 <= 0
                        THEN (IF DOMAIN MapRemove(e, value) = {}
                              THEN MapInsert(map, rule_id, MapRemove(r, group_by))
                              ELSE MapInsert(map, rule_id,
                                     MapInsert(r, group_by, MapRemove(e, value))))
                        ELSE MapInsert(map, rule_id,
                               MapInsert(r, group_by, MapInsert(e, value, e[value] - 1)))

\* MemBackendImpl::new for callers that will make `budget` calls on `targets`
NewBackend(targets, budget) ==
  [map |-> EmptyMap, chan |-> <<>>, queue |-> <<>>, lock |-> None,
   waiters |-> <<>>, task |-> [pc |-> "select"],
   targets |-> targets, budget |-> budget,
   incrs |-> EmptyMap, decrs |-> EmptyMap, last |-> [op |-> "new"]]

\* what a call is made on: the (rule id, key) and the timeout of the rule
Target(rule_id, key, timeout) ==
  [rule_id |-> rule_id, key |-> key, timeout |-> timeout]

\* how often the map was incremented and decremented for a target
Tally(t, target) ==
  IF <<target.rule_id, target.key>> \in DOMAIN t THEN t[<<target.rule_id, target.key>>] ELSE 0

Bump(t, target) == MapInsert(t, <<target.rule_id, target.key>>, Tally(t, target) + 1)

(***************************************************************************)
(* correlation/rule.rs: Correlation                                        *)
(***************************************************************************)
\* Correlation::init: the counter bound to each correlation type
CounterKind(type) == IF type = "event_count" THEN "EventCount" ELSE "ValueCount"

\* what Any::type_id answers: the type of the value it is called on
TypeIdOfCorrelationType == "correlation::serde::CorrelationType"
TypeIdOfEventCount == "correlation::state::Counter<i64, String>"
TypeIdOfValueCount ==
  "correlation::state::Counter<HashMap<String, i64>, (String, String)>"

\* condition.is_match(count) for one Condition
CondHolds(c, count) ==
  CASE c.op = "gt" -> count > c.n
    [] c.op = "gte" -> count >= c.n
    [] c.op = "lt" -> count < c.n
    [] c.op = "lte" -> count <= c.n
    [] c.op = "eq" -> count = c.n

\* the group key of eval: "k:v" for every event field that is a group-by
\* field, sorted and joined with ","
GroupKey(rule, data) ==
  LET gb == {rule.group_by[i] : i \in 1..Len(rule.group_by)}
      entries == {k \o <<":">> \o JsonToString(data[k]) : k \in DOMAIN data \cap gb}
  IN  join(into_sorted_vec(entries), <<",">>)

\* the dependency test at the head of eval
DependenciesInPrev(rule, prev) ==
  \A i \in 1..Len(rule.dependencies) :
    \E j \in 1..Len(prev) :
      \/ prev[j].id = rule.dependencies[i]
      \/ (IsSome(prev[j].name) /\ Unwrap(prev[j].name) = rule.dependencies[i])

InSeq(x, seq) == \E i \in 1..Len(seq) : seq[i] = x

\* the rules of prev that a temporal rule lists, by name or by id
TemporalCandidates(rule, prev) ==
  LET Listed(r) ==
        \/ (IsSome(r.name) /\ InSeq(Unwrap(r.name), rule.dependencies))
        \/ InSeq(r.id, rule.dependencies)
  IN  SelectSeq(prev, Listed)

RECURSIVE IncrAll(_, _, _, _)
IncrAll(counter, groupkey, cands, t) ==
  IF cands = <<>> THEN counter
  ELSE IncrAll(CounterIncr(counter, <<groupkey, Head(cands).id>>, t),
               groupkey, Tail(cands), t)

RECURSIVE OrderedLoop(_, _, _, _, _, _)
OrderedLoopSkips(rule, counter, groupkey, cands, i, t) ==
  IF i > Len(rule.dependencies) THEN [matched |-> TRUE, counter |-> counter]
  ELSE LET d == rule.dependencies[i]
           prev_ids == [k \in 1..Len(cands) |-> cands[k].id]
       IN  IF has_entry(counter, groupkey, d) \/ InSeq(d, prev_ids)
           THEN OrderedLoop(rule, CounterIncr(counter, <<groupkey, d>>, t),
                            groupkey, cands, i + 1, t)
           ELSE [matched |-> FALSE,
                 counter |-> OrderedLoop(rule, counter, groupkey, cands, i + 1, t).counter]

\* the loop of the TemporalOrdered arm over the dependencies from index i
OrderedLoop(rule, counter, groupkey, cands, i, t) ==
  IF i > Len(rule.dependencies) THEN [matched |-> TRUE, counter |-> counter]
  ELSE LET d == rule.dependencies[i]
           prev_ids == [k \in 1..Len(cands) |-> cands[k].id]
           prev_names == [k \in 1..Len(cands) |-> cands[k].name]
       IN  IF has_entry(counter, groupkey, d) \/ InSeq(d, prev_ids)
           THEN OrderedLoop(rule, CounterIncr(counter, <<groupkey, d>>, t),
                            groupkey, cands, i + 1, t)
           ELSE IF InSeq(Some(d), prev_names)
           THEN LET id == prev_ids[CHOOSE k \in 1..Len(prev_names) :
                                     /\ prev_names[k] = Some(d)
                                     /\ \A m \in 1..(k - 1) : prev_names[m] # Some(d)]
                IN  OrderedLoop(rule, CounterIncr(counter, <<groupkey, id>>, t),
                                groupkey, cands, i + 1, t)
           ELSE [matched |-> FALSE, counter |-> counter]

\* an eval that reports a match without looking at the state
EvalStateless(rule, st, data, prev, t) == [matched |-> TRUE, st |-> st]

\* Correlation::eval at time t.  st is the rule's state (None until init),
\* prev the rules matched so far on this event; the result carries the
\* rule's state after the call.
Eval(rule, st, data, prev, t) ==
  LET type_id == TypeIdOfCorrelationType
      groupkey == GroupKey(rule, data)
      counter == Unwrap(st)
      no == [matched |-> FALSE, st |-> st]
  IN  IF (type_id = TypeIdOfEventCount \/ type_id = TypeIdOfValueCount)
         /\ ~DependenciesInPrev(rule, prev)
      THEN no
      ELSE IF ~IsSome(st) THEN no
      ELSE IF Len(groupkey) = 0 THEN no
      ELSE CASE rule.correlation_type = "event_count" ->
                  IF counter.kind # "EventCount" THEN no
                  ELSE LET c2 == CounterIncr(counter, groupkey, t)
                           count == CounterCount(c2, groupkey)
                       IN  [matched |-> \A i \in 1..Len(rule.condition) :
                                          CondHolds(rule.condition[i], count),
                            st |-> Some(c2)]
             [] rule.correlation_type = "value_count" ->
                  IF counter.kind # "ValueCount" THEN no
                  ELSE IF ~(rule.field \in DOMAIN data
                            /\ data[rule.field].t \in {"string", "number"})
                  THEN no
                  ELSE LET value == data[rule.field].v
                           c2 == CounterIncr(counter, <<groupkey, value>>, t)
                           count == CounterCount(c2, groupkey)
                       IN  [matched |-> CondHolds(rule.condition[1], count),
                            st |-> Some(c2)]
             [] rule.correlation_type = "temporal" ->
                  IF counter.kind # "ValueCount" THEN no
                  ELSE LET c2 == IncrAll(counter, groupkey,
                                         TemporalCandidates(rule, prev), t)
                       IN  [matched |-> \A i \in 1..Len(rule.dependencies) :
                                          has_entry(c2, groupkey, rule.dependencies[i]),
                            st |-> Some(c2)]
             [] rule.correlation_type = "temporal_ordered" ->
                  IF counter.kind # "ValueCount" THEN no
                  ELSE LET r == OrderedLoop(rule, counter, groupkey,
                                            TemporalCandidates(rule, prev), 1, t)
                       IN  [matched |-> r.matched, st |-> Some(r.counter)]

(***************************************************************************)
(* collection.rs: init, get_matches, push_correlation_matches.  The state  *)
(* handle of a rule (its OnceLock) is state[id]; an id without an entry    *)
(* has no handle yet.                                                      *)
(***************************************************************************)
StateOf(st, id) == IF id \in DOMAIN st THEN st[id] ELSE None

CorrelationIds(c) == {id \in DOMAIN c.rules : c.rules[id].kind = "correlation"}

\* the loop of push_correlation_matches over the candidate rules
RECURSIVE PushLoop(_, _, _, _, _, _)
PushLoop(c, data, cands, prior, st, t) ==
  IF cands = <<>> THEN [prior |-> prior, st |-> st]
  ELSE LET rule == c.rules[Head(cands)]
           prev == [j \in 1..Len(prior) |-> c.rules[prior[j]]]
           r == Eval(rule, StateOf(st, rule.id), data, prev, t)
       IN  IF rule.kind # "correlation"
           THEN PushLoop(c, data, Tail(cands), prior, st, t)
           ELSE PushLoop(c, data, Tail(cands),
                         IF r.matched THEN Append(prior, rule.id) ELSE prior,
                         IF IsSome(r.st) THEN MapInsert(st, rule.id, r.st) ELSE st,
                         t)

\* a loop that goes over the candidates twice
PushCorrelationMatchesRevisits(c, event, prior, st, t) ==
  LET Candidate(idx) ==
        /\ \E j \in 1..Len(prior) :
             /\ prior[j] \in c.deps.nodes
             /\ (has_path_connecting(c.deps, prior[j], idx) \/ prior[j] = idx)
        /\ idx \in DOMAIN c.rules
      cands == SelectSeq(c.deps.sorted, Candidate)
  IN  PushLoop(c, event.data, cands \o cands, prior, st, t)

\* candidates that are all the sorted nodes when prior is empty
PushCorrelationMatchesUnprompted(c, event, prior, st, t) ==
  LET Candidate(idx) ==
        /\ \/ prior = <<>>
           \/ \E j \in 1..Len(prior) :
                /\ prior[j] \in c.deps.nodes
                /\ (has_path_connecting(c.deps, prior[j], idx) \/ prior[j] = idx)
        /\ idx \in DOMAIN c.rules
  IN  PushLoop(c, event.data, SelectSeq(c.deps.sorted, Candidate), prior, st, t)

PushCorrelationMatchesAll(c, event, prior, st, t) ==
  LET Held(idx) == idx \in DOMAIN c.rules
  IN  PushLoop(c, event.data, SelectSeq(c.deps.sorted, Held), prior, st, t)

\* push_correlation_matches: the candidates are the sorted nodes that a rule
\* of prior reaches in the graph and that the rule map still holds
PushCorrelationMatches(c, event, prior, st, t) ==
  LET Candidate(idx) ==
        /\ \E j \in 1..Len(prior) :
             /\ prior[j] \in c.deps.nodes
             /\ (has_path_connecting(c.deps, prior[j], idx) \/ prior[j] = idx)
        /\ idx \in DOMAIN c.rules
  IN  PushLoop(c, event.data, SelectSeq(c.deps.sorted, Candidate), prior, st, t)

(***************************************************************************)
(* Rules and events the operations are called with.                        *)
(***************************************************************************)
SelFooBar == (<<"s", "e", "l">> :> <<Field(f_foo, <<JStr(v_bar)>>, <<>>)>>)
SelBazQuux == (<<"s", "e", "l">> :> <<Field(f_baz, <<JStr(v_quux)>>, <<>>)>>)
CondSel == Identifier(<<"s", "e", "l">>)

Gte2 == <<Cond("gte", 2)>>

\* rules of the construction runs: four ids, several rules per id
DWin == DetectionRule("d", Some("n1"), LogSource(None, Some("windows"), None),
                      Detection(SelFooBar, CondSel))
DLin == DetectionRule("d", None, LogSource(None, Some("linux"), None),
                      Detection(SelFooBar, CondSel))
ECat == DetectionRule("e", Some("n2"), LogSource(Some("test"), None, None),
                      Detection(SelFooBar, CondSel))
CofD == CorrelationRule("c", None, "event_count", <<"d">>, <<f_user>>, Gte2, <<>>)
CSelf == CorrelationRule("c", None, "event_count", <<"c">>, <<f_user>>, Gte2, <<>>)
CofK == CorrelationRule("c", None, "event_count", <<"k">>, <<f_user>>, Gte2, <<>>)
KofC == CorrelationRule("k", None, "temporal", <<"c", "e">>, <<f_user>>, <<>>, <<>>)
KofN1 == CorrelationRule("k", None, "event_count", <<"n1">>, <<f_user>>, Gte2, <<>>)

Catalog == {DWin, DLin, ECat, CofD, CSelf, CofK, KofC, KofN1}

\* rule lists a collection is constructed from
RuleLists ==
  {<<DWin, CofD>>,
   <<DWin, ECat>>,
   <<CofK>>,
   <<CSelf, KofN1>>,
   <<ECat, CofK, KofC>>,
   <<DWin, DLin, KofN1>>}

FooBar == (f_foo :> JStr(v_bar))
FooBaz == (f_foo :> JStr(f_baz))

ProbeEvents ==
  {Event(FooBar, NoLogSource),
   Event(FooBaz, NoLogSource),
   Event(FooBar, LogSource(None, Some("linux"), None)),
   Event(FooBar, LogSource(None, Some("windows"), None)),
   Event(FooBar, LogSource(Some("other"), Some("windows"), None)),
   Event(FooBar, LogSource(Some("test"), None, Some("security")))}

\* rules of the evaluation runs: two detections and one correlation
First == DetectionRule("f1", Some("first"), NoLogSource, Detection(SelFooBar, CondSel))
Second == DetectionRule("s2", Some("second"), NoLogSource, Detection(SelBazQuux, CondSel))

Fixtures ==
  {<<First, Second, CorrelationRule("c", None, "event_count", <<"f1">>, <<f_user>>, Gte2, <<>>)>>,
   <<First, Second, CorrelationRule("c", None, "event_count", <<"first">>, <<f_user>>, Gte2, <<>>)>>,
   <<First, Second, CorrelationRule("c", None, "event_count", <<"f1">>, <<f_user, f_host>>, Gte2, <<>>)>>,
   <<First, Second, CorrelationRule("c", None, "value_count", <<"f1">>, <<f_user>>, Gte2, f_host)>>,
   <<First, Second, CorrelationRule("c", None, "temporal", <<"f1", "s2">>, <<f_user>>, <<>>, <<>>)>>,
   <<First, Second, CorrelationRule("c", None, "temporal", <<"first", "second">>, <<f_user>>, <<>>, <<>>)>>,
   <<First, Second, CorrelationRule("c", None, "temporal_ordered", <<"f1", "s2">>, <<f_user>>, <<>>, <<>>)>>,
   <<First, Second, CorrelationRule("c", None, "temporal_ordered", <<"first", "second">>, <<f_user>>, <<>>, <<>>)>>}

\* a chain of correlations: k1 counts the matches of f1, k2 those of k1
Gte1 == <<Cond("gte", 1)>>
K1 == CorrelationRule("k1", None, "event_count", <<"f1">>, <<f_user>>, Gte2, <<>>)
K2 == CorrelationRule("k2", None, "event_count", <<"k1">>, <<f_user>>, Gte1, <<>>)
\* a rule with the id of K1 that references k2
K1Back == CorrelationRule("k1", None, "event_count", <<"k2">>, <<f_user>>, Gte1, <<>>)

ChainRules == <<First, Second, K1, K2>>

StreamEvents ==
  {Event(FooBar @@ (f_user :> JStr(v_alice)), NoLogSource),
   Event(FooBar @@ (f_user :> JStr(v_bob)), NoLogSource),
   Event(FooBar, NoLogSource),
   Event(FooBar @@ (f_user :> JStr(v_alice)) @@ (f_host :> JStr(v_h1)), NoLogSource),
   Event(FooBar @@ (f_user :> JStr(v_alice)) @@ (f_host :> JStr(v_1)), NoLogSource),
   Event((f_baz :> JStr(v_quux)) @@ (f_user :> JStr(v_alice)), NoLogSource)}

(***************************************************************************)
(* Actions                                                                 *)
(***************************************************************************)
\* runs without a MemBackend, without concurrent callers, without a second
\* collection
NoBackend == <<>>
NoCalls == <<>>
NoTwin == <<>>

\* SigmaCollection::add
Add(rule) ==
  /\ nadds < MaxAdds
  /\ \E out \in Solve(Insert(collection, rule)) :
       /\ collection' = out.c
       /\ ret' = [op |-> "add", rule |-> rule, val |-> out.err, before |-> collection]
  /\ state' = [id \in DOMAIN state \ {rule.id} |-> state[id]]
  /\ nadds' = nadds + 1
  /\ UNCHANGED <<now, log, mem, calls, twin>>

\* SigmaCollection::try_from(Vec<SigmaRule>): the collection is the one the
\* call built, and nothing is built when it fails
TryFromRules(rules) ==
  /\ nadds = 0
  /\ collection = EmptyCollection
  /\ \E out \in TryFrom(rules) :
       /\ collection' = IF out.err = Ok THEN out.c ELSE EmptyCollection
       /\ ret' = [op |-> "try_from", rules |-> rules, val |-> out.err,
                  attempted |-> InsertAll(EmptyCollection, rules)]
  /\ nadds' = nadds + 1
  /\ UNCHANGED <<state, now, log, mem, calls, twin>>

\* SigmaCollection::get_detection_matches
GetDetectionMatches(event) ==
  /\ ret' \in {[op |-> "get_detection_matches", event |-> event, val |-> v] :
                 v \in Perms(DetectionMatches(collection, event))}
  /\ UNCHANGED <<collection, state, now, log, nadds, mem, calls, twin>>

\* SigmaCollection::init, the loop over the rules in the order the map
\* yields them: the state of a correlation is bound (Correlation::init,
\* Backend::register), and the Err returned for one that has its state
\* already is unwrapped
RECURSIVE RegisterAll(_, _, _)
RegisterAll(c, order, st) ==
  IF order = <<>> THEN [val |-> Ok, st |-> st]
  ELSE IF IsSome(StateOf(st, Head(order))) THEN [val |-> "panic", st |-> st]
  ELSE RegisterAll(c, Tail(order),
         MapInsert(st, Head(order),
           Some(NewCounter(CounterKind(c.rules[Head(order)].correlation_type)))))

\* SigmaCollection::init
CollectionInit ==
  /\ \E order \in Perms(CorrelationIds(collection)) :
       LET r == RegisterAll(collection, order, state)
       IN  /\ ret' = [op |-> "init", val |-> r.val,
                      bound |-> {id \in CorrelationIds(collection) :
                                   IsSome(StateOf(state, id))}]
           /\ state' = r.st
  /\ UNCHANGED <<collection, now, log, nadds, mem, calls, twin>>

\* SigmaCollection::get_matches
GetMatches(event) ==
  /\ Len(log) < MaxEvents
  /\ \E prior \in Perms(DetectionMatches(collection, event)) :
       LET r == PushCorrelationMatches(collection, event, prior, state, now)
       IN  /\ state' = r.st
           /\ ret' = [op |-> "get_matches", event |-> event, val |-> r.prior]
           /\ log' = Append(log, [event |-> event, time |-> now, val |-> r.prior,
                                  registered |-> state # EmptyMap])
  /\ UNCHANGED <<collection, now, nadds, mem, calls, twin>>

\* SigmaCollection::get_matches_unfiltered
GetMatchesUnfiltered(event) ==
  /\ Len(log) < MaxEvents
  /\ \E prior \in Perms(DetectionMatchesUnfiltered(collection, event)) :
       LET r == PushCorrelationMatches(collection, event, prior, state, now)
       IN  /\ state' = r.st
           /\ ret' = [op |-> "get_matches_unfiltered", event |-> event, val |-> r.prior]
           /\ log' = Append(log, [event |-> event, time |-> now, val |-> r.prior,
                                  registered |-> state # EmptyMap])
  /\ UNCHANGED <<collection, now, nadds, mem, calls, twin>>

\* the background task of a counter takes the next expired key
Expire(id) ==
  /\ id \in DOMAIN state
  /\ IsSome(state[id])
  /\ CanExpire(Unwrap(state[id]), now)
  /\ state' = [state EXCEPT ![id] = Some(CounterExpire(Unwrap(state[id])))]
  /\ UNCHANGED <<collection, now, ret, log, nadds, mem, calls, twin>>

\* time passes
Tick ==
  /\ now < MaxTime
  /\ now' = now + 1
  /\ UNCHANGED <<collection, state, ret, log, nadds, mem, calls, twin>>

\* a caller that is in no call
Idle == [pc |-> "idle", ret |-> [op |-> "none"]]

\* MemBackendImpl::incr is called: the caller queues for the write lock
MemIncrCall(p, target) ==
  /\ calls[p].pc = "idle"
  /\ mem.budget > 0
  /\ calls' = [calls EXCEPT ![p] = [pc |-> "incr_lock", target |-> target,
                                    ret |-> Idle.ret]]
  /\ mem' = [mem EXCEPT !.waiters = Append(@, p), !.budget = @ - 1]
  /\ UNCHANGED <<collection, state, now, ret, log, nadds, twin>>

\* MemBackendImpl::incr gets the write lock and adds one to the entry
MemIncrLocked(p) ==
  /\ calls[p].pc = "incr_lock"
  /\ mem.lock = None
  /\ Head(mem.waiters) = p
  /\ LET t == calls[p].target
     IN  mem' = [mem EXCEPT !.lock = Some(p),
                            !.waiters = Tail(@),
                            !.map = MemIncrEntry(@, t.rule_id, t.key),
                            !.incrs = Bump(@, t),
                            !.last = [op |-> "incr_entry"]]
  /\ calls' = [calls EXCEPT ![p].pc = "incr_send"]
  /\ UNCHANGED <<collection, state, now, ret, log, nadds, twin>>

\* MemBackendImpl::incr sends the key to the background task, which waits
\* while the channel is full, and returns, dropping the lock
MemIncrSend(p) ==
  /\ calls[p].pc = "incr_send"
  /\ Len(mem.chan) < ChannelCapacity
  /\ LET t == calls[p].target
         r == [op |-> "incr", target |-> t,
               val |-> MemIncrResult(mem.map, t.rule_id, t.key),
               nth |-> Tally(mem.incrs, t), undone |-> Tally(mem.decrs, t)]
     IN  /\ mem' = [mem EXCEPT !.chan = Append(@, t), !.lock = None,
                                !.last = [op |-> "incr", target |-> t, val |-> r.val]]
         /\ calls' = [calls EXCEPT ![p] = [pc |-> "idle", ret |-> r]]
  /\ UNCHANGED <<collection, state, now, ret, log, nadds, twin>>

\* MemBackendImpl::count is called: the caller queues for the read lock
MemCountCall(p, target) ==
  /\ calls[p].pc = "idle"
  /\ mem.budget > 0
  /\ calls' = [calls EXCEPT ![p] = [pc |-> "count_lock", target |-> target,
                                    ret |-> Idle.ret]]
  /\ mem' = [mem EXCEPT !.waiters = Append(@, p), !.budget = @ - 1]
  /\ UNCHANGED <<collection, state, now, ret, log, nadds, twin>>

\* MemBackendImpl::count reads the entry under the read lock and returns
MemCountRead(p) ==
  /\ calls[p].pc = "count_lock"
  /\ mem.lock = None
  /\ Head(mem.waiters) = p
  /\ LET t == calls[p].target
         r == [op |-> "count", target |-> t,
               val |-> MemCountOf(mem.map, t.rule_id, t.key),
               nth |-> Tally(mem.incrs, t), undone |-> Tally(mem.decrs, t),
               prev |-> mem.last]
     IN  /\ mem' = [mem EXCEPT !.waiters = Tail(@), !.last = [op |-> "count"]]
         /\ calls' = [calls EXCEPT ![p] = [pc |-> "idle", ret |-> r]]
  /\ UNCHANGED <<collection, state, now, ret, log, nadds, twin>>

\* MemBackendImpl::start, the branch of select! that receives a command
TaskRecv ==
  /\ mem.task.pc = "select"
  /\ mem.chan # <<>>
  /\ mem' = [mem EXCEPT
               !.queue = Append(@, [target |-> Head(mem.chan),
                                    deadline |-> now + Head(mem.chan).timeout]),
               !.chan = Tail(@),
               !.last = [op |-> "recv"]]
  /\ UNCHANGED <<collection, state, now, ret, log, nadds, calls, twin>>

\* the entry of the DelayQueue that expires first
NextExpiring(queue) ==
  CHOOSE i \in 1..Len(queue) :
    /\ \A j \in 1..Len(queue) : queue[i].deadline <= queue[j].deadline
    /\ \A j \in 1..(i - 1) : queue[j].deadline > queue[i].deadline

RemoveAt(seq, i) == SubSeq(seq, 1, i - 1) \o SubSeq(seq, i + 1, Len(seq))

\* MemBackendImpl::start, the branch of select! that takes an expired entry
\* and queues for the write lock
TaskExpired ==
  /\ mem.task.pc = "select"
  /\ mem.queue # <<>>
  /\ mem.queue[NextExpiring(mem.queue)].deadline <= now
  /\ mem' = [mem EXCEPT
               !.task = [pc |-> "lock",
                         expired |-> mem.queue[NextExpiring(mem.queue)].target],
               !.queue = RemoveAt(@, NextExpiring(mem.queue)),
               !.waiters = Append(@, "task"),
               !.last = [op |-> "expired"]]
  /\ UNCHANGED <<collection, state, now, ret, log, nadds, calls, twin>>

\* MemBackendImpl::start, the expired entry is taken off the map under the
\* write lock
TaskDecr ==
  /\ mem.task.pc = "lock"
  /\ mem.lock = None
  /\ Head(mem.waiters) = "task"
  /\ LET t == mem.task.expired
     IN  mem' = [mem EXCEPT !.map = MemDecrEntry(@, t.rule_id, t.key),
                            !.decrs = Bump(@, t),
                            !.waiters = Tail(@),
                            !.task = [pc |-> "select"],
                            !.last = [op |-> "decr"]]
  /\ UNCHANGED <<collection, state, now, ret, log, nadds, calls, twin>>

(***************************************************************************)
(* Spec: a collection built by add and probed with get_detection_matches.  *)
(***************************************************************************)
Init ==
  /\ collection = EmptyCollection
  /\ state = EmptyMap
  /\ now = 0
  /\ ret = [op |-> "new"]
  /\ log = <<>>
  /\ nadds = 0
  /\ mem = NoBackend
  /\ calls = NoCalls
  /\ twin = NoTwin

Next ==
  \/ \E rules \in RuleLists : TryFromRules(rules)
  \/ \E rule \in Catalog : Add(rule)
  \/ \E event \in ProbeEvents : GetDetectionMatches(event)

Spec == Init /\ [][Next]_vars

(***************************************************************************)
(* SpecCorr: a collection parsed from a rule list, its correlation state   *)
(* registered, fed a stream of events while time passes and counters       *)
(* expire.                                                                 *)
(***************************************************************************)
InitCorr ==
  /\ collection \in {out.c : out \in {o \in UNION {TryFrom(f) : f \in Fixtures} : o.err = Ok}}
  /\ state = EmptyMap
  /\ now = 0
  /\ ret = [op |-> "new"]
  /\ log = <<>>
  /\ nadds = 0
  /\ mem = NoBackend
  /\ calls = NoCalls
  /\ twin = NoTwin

NextCorr ==
  \/ CollectionInit
  \/ \E event \in StreamEvents : GetMatches(event)
  \/ \E id \in DOMAIN state : Expire(id)
  \/ Tick

SpecCorr == InitCorr /\ [][NextCorr]_vars

(***************************************************************************)
(* SpecChain: the evaluation runs on a chain of correlations, on the       *)
(* collection as try_from built it and as a later add(K1Back) left it.     *)
(***************************************************************************)
ChainCollections ==
  LET built == {out.c : out \in {o \in TryFrom(ChainRules) : o.err = Ok}}
  IN  built \cup UNION {{out.c : out \in Solve(Insert(c, K1Back))} : c \in built}

InitChain ==
  /\ collection \in ChainCollections
  /\ state = EmptyMap
  /\ now = 0
  /\ ret = [op |-> "new"]
  /\ log = <<>>
  /\ nadds = 0
  /\ mem = NoBackend
  /\ calls = NoCalls
  /\ twin = NoTwin

SpecChain == InitChain /\ [][NextCorr]_vars

(***************************************************************************)
(* SpecQuiet: the evaluation runs on the chain of correlations, by         *)
(* get_matches and get_matches_unfiltered, with events among them that no  *)
(* detection matches.                                                      *)
(***************************************************************************)
QuietEvents ==
  StreamEvents
    \cup {Event(FooBaz @@ (f_user :> JStr(v_alice)), NoLogSource),
          Event((f_user :> JStr(v_alice)), NoLogSource)}

NextQuiet ==
  \/ CollectionInit
  \/ \E event \in QuietEvents : GetMatches(event)
  \/ \E event \in QuietEvents : GetMatchesUnfiltered(event)
  \/ \E id \in DOMAIN state : Expire(id)
  \/ Tick

SpecQuiet == InitChain /\ [][NextQuiet]_vars

(***************************************************************************)
(* SpecMem: callers of a MemBackend make incr and count calls on a few     *)
(* keys while its background task receives, waits and expires.             *)
(***************************************************************************)
Alice == <<<<f_user, JStr(v_alice)>>>>
EKey == EventCountKey(Alice)
VKey1 == ValueCountKey(Alice, v_h1)
VKey2 == ValueCountKey(Alice, v_1)

MemTargets ==
  {Target("c", EKey, Timespan), Target("v", VKey1, Timespan),
   Target("v", VKey2, Timespan)}

Callers == {"p1", "p2"}

InitMem ==
  /\ collection = EmptyCollection
  /\ state = EmptyMap
  /\ now = 0
  /\ ret = [op |-> "new"]
  /\ log = <<>>
  /\ nadds = 0
  /\ mem = NewBackend(MemTargets, MaxCalls)
  /\ calls = [p \in Callers |-> Idle]
  /\ twin = NoTwin

NextMem ==
  \/ \E p \in DOMAIN calls : \E t \in mem.targets : MemIncrCall(p, t)
  \/ \E p \in DOMAIN calls : MemIncrLocked(p)
  \/ \E p \in DOMAIN calls : MemIncrSend(p)
  \/ \E p \in DOMAIN calls : \E t \in mem.targets : MemCountCall(p, t)
  \/ \E p \in DOMAIN calls : MemCountRead(p)
  \/ TaskRecv
  \/ TaskExpired
  \/ TaskDecr
  \/ Tick

SpecMem == InitMem /\ [][NextMem]_vars

(***************************************************************************)
(* SpecMemBusy: one caller makes enough incr calls on one key to fill the  *)
(* command channel.  The rule has timespan 0s, so that every entry of the  *)
(* DelayQueue is expired as soon as it is inserted and no time need pass.  *)
(* The caller and the background task are scheduled fairly.                *)
(***************************************************************************)
BusyTarget == Target("c", EKey, 0)

InitMemBusy ==
  /\ collection = EmptyCollection
  /\ state = EmptyMap
  /\ now = 0
  /\ ret = [op |-> "new"]
  /\ log = <<>>
  /\ nadds = 0
  /\ mem = NewBackend({BusyTarget}, ChannelCapacity + 2)
  /\ calls = [p \in {"p1"} |-> Idle]
  /\ twin = NoTwin

NextMemBusy ==
  \/ \E p \in DOMAIN calls : \E t \in mem.targets : MemIncrCall(p, t)
  \/ \E p \in DOMAIN calls : MemIncrLocked(p)
  \/ \E p \in DOMAIN calls : MemIncrSend(p)
  \/ TaskRecv
  \/ TaskExpired
  \/ TaskDecr

SpecMemBusy ==
  /\ InitMemBusy
  /\ [][NextMemBusy]_vars
  /\ WF_vars(TaskRecv)
  /\ WF_vars(TaskExpired)
  /\ WF_vars(TaskDecr)
  /\ WF_vars(MemIncrLocked("p1"))
  /\ WF_vars(MemIncrSend("p1"))

(***************************************************************************)
(* SpecConc: get_matches takes &self, so several calls can be in flight    *)
(* on one collection.  A call on an event_count rule is two steps,         *)
(* Counter::incr and then Counter::count (rule.rs, the EventCount arm of   *)
(* eval), each under its own lock.  The collection has one correlation,    *)
(* an event_count rule with condition eq 2, and its state is registered.   *)
(***************************************************************************)
Eq2 == <<Cond("eq", 2)>>

ConcRules ==
  <<First, CorrelationRule("c", None, "event_count", <<"f1">>, <<f_user>>, Eq2, <<>>)>>

\* the correlation candidates of push_correlation_matches
CorrelationCandidates(c, prior) ==
  LET Candidate(idx) ==
        /\ \E j \in 1..Len(prior) :
             /\ prior[j] \in c.deps.nodes
             /\ (has_path_connecting(c.deps, prior[j], idx) \/ prior[j] = idx)
        /\ idx \in DOMAIN c.rules
        /\ c.rules[idx].kind = "correlation"
  IN  SelectSeq(c.deps.sorted, Candidate)

InFlight == {p \in DOMAIN calls : calls[p].pc # "idle"}

\* get_matches up to and including counter.incr(&groupkey) of eval
EvalIncr(p, event) ==
  /\ calls[p].pc = "idle"
  /\ Len(log) + Cardinality(InFlight) < MaxCalls
  /\ \E prior \in Perms(DetectionMatches(collection, event)) :
       LET cands == CorrelationCandidates(collection, prior)
           rule == collection.rules[Head(cands)]
           prev == [j \in 1..Len(prior) |-> collection.rules[prior[j]]]
           r == Eval(rule, StateOf(state, rule.id), event.data, prev, now)
       IN  IF cands = <<>>
           THEN /\ log' = Append(log, [event |-> event, time |-> now, val |-> prior,
                                       registered |-> state # EmptyMap,
                                       incremented |-> FALSE, count |-> 0])
                /\ UNCHANGED <<state, calls>>
           ELSE /\ state' = IF IsSome(r.st) THEN MapInsert(state, rule.id, r.st)
                            ELSE state
                /\ calls' = [calls EXCEPT ![p] =
                               [pc |-> "eval_count", event |-> event, prior |-> prior,
                                id |-> rule.id,
                                incremented |-> r.st # StateOf(state, rule.id),
                                ret |-> Idle.ret]]
                /\ UNCHANGED log
  /\ UNCHANGED <<collection, now, ret, nadds, mem, twin>>

\* eval from counter.count(&groupkey) on, and the return of get_matches
EvalCount(p) ==
  /\ calls[p].pc = "eval_count"
  /\ LET rule == collection.rules[calls[p].id]
         count == CounterCount(Unwrap(state[rule.id]),
                               GroupKey(rule, calls[p].event.data))
         matched == /\ calls[p].incremented
                    /\ \A i \in 1..Len(rule.condition) :
                         CondHolds(rule.condition[i], count)
         val == IF matched THEN Append(calls[p].prior, rule.id) ELSE calls[p].prior
     IN  /\ log' = Append(log, [event |-> calls[p].event, time |-> now, val |-> val,
                                registered |-> state # EmptyMap,
                                incremented |-> calls[p].incremented,
                                count |-> IF calls[p].incremented THEN count ELSE 0])
         /\ calls' = [calls EXCEPT ![p] =
                        [pc |-> "idle",
                         ret |-> [op |-> "get_matches", event |-> calls[p].event,
                                  val |-> val]]]
  /\ UNCHANGED <<collection, state, now, ret, nadds, mem, twin>>

InitConc ==
  /\ collection \in {out.c : out \in {o \in TryFrom(ConcRules) : o.err = Ok}}
  /\ state = RegisterAll(collection, <<"c">>, EmptyMap).st
  /\ now = 0
  /\ ret = [op |-> "init", val |-> Ok, bound |-> {}]
  /\ log = <<>>
  /\ nadds = 0
  /\ mem = NoBackend
  /\ calls = [p \in Callers |-> Idle]
  /\ twin = NoTwin

NextConc ==
  \/ \E p \in DOMAIN calls : \E event \in StreamEvents : EvalIncr(p, event)
  \/ \E p \in DOMAIN calls : EvalCount(p)

SpecConc == InitConc /\ [][NextConc]_vars

(***************************************************************************)
(* SpecCounter: concurrent callers of Counter::incr on one EventCount      *)
(* counter (counter.rs).  incr updates the map under the write lock, drops *)
(* the lock and then sends the key; run_queue receives the keys, puts them *)
(* in its DelayQueue and takes one off the map for each that expires.  mem *)
(* holds the counter: its map, its channel and the DelayQueue.  made is    *)
(* the number of map updates so far; every key in flight carries the       *)
(* ordinal nth of the update it belongs to and the time it was made at,    *)
(* and undone lists the updates whose expiry was applied, in the order of  *)
(* application.                                                            *)
(***************************************************************************)
CounterChannelCapacity == 10

AliceKey == GroupKey(K1, FooBar @@ (f_user :> JStr(v_alice)))
BobKey == GroupKey(K1, FooBar @@ (f_user :> JStr(v_bob)))
CounterKeys == {AliceKey, BobKey}

\* Counter::new
CounterNew(budget) ==
  [map |-> EmptyMap, chan |-> <<>>, queue |-> <<>>, made |-> 0,
   undone |-> <<>>, budget |-> budget]

\* Counter::incr up to drop(map): incr_entry under the write lock
CounterIncrEntry(p, key) ==
  /\ calls[p].pc = "idle"
  /\ mem.budget > 0
  /\ mem' = [mem EXCEPT !.map = EventIncrEntry(@, key),
                        !.made = @ + 1,
                        !.budget = @ - 1]
  /\ calls' = [calls EXCEPT ![p] = [pc |-> "send", key |-> key,
                                    nth |-> mem.made + 1, at |-> now]]
  /\ UNCHANGED <<collection, state, now, ret, log, nadds, twin>>

\* Counter::incr, self.tx.send(key.clone()).await and the return
CounterIncrSend(p) ==
  /\ calls[p].pc = "send"
  /\ Len(mem.chan) < CounterChannelCapacity
  /\ mem' = [mem EXCEPT !.chan = Append(@, [key |-> calls[p].key,
                                            nth |-> calls[p].nth,
                                            at |-> calls[p].at])]
  /\ calls' = [calls EXCEPT ![p] = [pc |-> "idle"]]
  /\ UNCHANGED <<collection, state, now, ret, log, nadds, twin>>

\* a run_queue that inserts the key with no delay
RunQueueRecvNoDelay ==
  /\ mem.chan # <<>>
  /\ mem' = [mem EXCEPT
               !.queue = Append(@, [target |-> Head(mem.chan), deadline |-> now]),
               !.chan = Tail(@)]
  /\ UNCHANGED <<collection, state, now, ret, log, nadds, calls, twin>>

\* Counter::run_queue, the branch recv = rx.recv()
RunQueueRecv ==
  /\ mem.chan # <<>>
  /\ mem' = [mem EXCEPT
               !.queue = Append(@, [target |-> Head(mem.chan),
                                    deadline |-> now + Timespan]),
               !.chan = Tail(@)]
  /\ UNCHANGED <<collection, state, now, ret, log, nadds, calls, twin>>

\* Counter::run_queue, the branch Some(recv) = queue.next(), enabled while
\* the map is not empty: decr_entry under the write lock
RunQueueExpired ==
  /\ mem.queue # <<>>
  /\ mem.queue[NextExpiring(mem.queue)].deadline <= now
  /\ Cardinality(DOMAIN mem.map) > 0
  /\ LET e == mem.queue[NextExpiring(mem.queue)].target
     IN  mem' = [mem EXCEPT
                   !.map = EventDecrEntry(@, e.key),
                   !.queue = RemoveAt(@, NextExpiring(mem.queue)),
                   !.undone = Append(@, [key |-> e.key, nth |-> e.nth,
                                         at |-> e.at, time |-> now])]
  /\ UNCHANGED <<collection, state, now, ret, log, nadds, calls, twin>>

InitCounter ==
  /\ collection = EmptyCollection
  /\ state = EmptyMap
  /\ now = 0
  /\ ret = [op |-> "new"]
  /\ log = <<>>
  /\ nadds = 0
  /\ mem = CounterNew(MaxCalls)
  /\ calls = [p \in Callers |-> [pc |-> "idle"]]
  /\ twin = NoTwin

NextCounter ==
  \/ \E p \in DOMAIN calls : \E key \in CounterKeys : CounterIncrEntry(p, key)
  \/ \E p \in DOMAIN calls : CounterIncrSend(p)
  \/ RunQueueRecv
  \/ RunQueueExpired
  \/ Tick

SpecCounter == InitCounter /\ [][NextCounter]_vars

(***************************************************************************)
(* SpecKey: the two places that compute a group key, the conversion of a   *)
(* Key (state/mod.rs) and the head of eval (rule.rs), applied to GroupBys  *)
(* of up to three fields in every order and to the events that carry       *)
(* them.                                                                   *)
(***************************************************************************)
KeyFields == {f_foo, f_user, f_host}
KeyValues == {JStr(v_alice), JStr(v_bob), JNum(v_1)}

\* the assignments of values to some of the fields
KeyData ==
  UNION {[F -> KeyValues] : F \in SUBSET KeyFields \ {{}}}

\* the GroupBy vectors that list the entries of d in some order
GroupBysOf(d) == {[i \in 1..Len(o) |-> <<o[i], d[o[i]]>>] : o \in Perms(DOMAIN d)}

KeyInputs ==
  UNION {{EventCountKey(g) : g \in GroupBysOf(d)}
           \cup {ValueCountKey(g, v_h1) : g \in GroupBysOf(d)} : d \in KeyData}

\* (&key).into()
KeyIntoCall(key) ==
  /\ ret.op = "new"
  /\ ret' = [op |-> "key_into", key |-> key, val |-> KeyInto(key)]
  /\ UNCHANGED <<collection, state, now, log, nadds, mem, calls, twin>>

\* the group key eval computes for an event, for a rule that declares the
\* group-by fields in the order group_by
GroupKeyCall(group_by, data) ==
  /\ ret.op = "new"
  /\ ret' = [op |-> "groupkey", group_by |-> group_by, data |-> data,
             val |-> GroupKey(CorrelationRule("c", None, "event_count", <<"f1">>,
                                              group_by, Gte2, <<>>), data)]
  /\ UNCHANGED <<collection, state, now, log, nadds, mem, calls, twin>>

NextKey ==
  \/ \E key \in KeyInputs : KeyIntoCall(key)
  \/ \E d \in KeyData : \E group_by \in Perms(DOMAIN d) :
       \E extra \in SUBSET {f_baz} :
         GroupKeyCall(group_by, d @@ [k \in extra |-> JStr(v_quux)])

SpecKey == Init /\ [][NextKey]_vars

(***************************************************************************)
(* SpecOrder: two collections are built from the same rules given in two   *)
(* orders, their states are registered, and both are fed the same events.  *)
(* twin holds the second collection and its correlation states.            *)
(***************************************************************************)
NamedA == DetectionRule("a", Some("n"), NoLogSource, Detection(SelFooBar, CondSel))
NamedB == DetectionRule("b", Some("n"), NoLogSource, Detection(SelBazQuux, CondSel))
CofN == CorrelationRule("c", None, "event_count", <<"n">>, <<f_user>>, Gte1, <<>>)
SecondIsF1 == DetectionRule("s2", Some("f1"), NoLogSource, Detection(SelBazQuux, CondSel))
CofF1 == CorrelationRule("c", None, "event_count", <<"f1">>, <<f_user>>, Gte1, <<>>)

\* rule sets: two rules of one name, a name that is another rule's id, and
\* rules with names and ids all different
OrderRuleSets ==
  {{NamedA, NamedB, CofN}, {First, SecondIsF1, CofF1}, {First, Second, K1}}

\* the collections try_from can build from the rules of S in some order
BuiltFrom(S) ==
  UNION {{out.c : out \in {o \in TryFrom(order) : o.err = Ok}} : order \in Perms(S)}

\* SigmaCollection::init, the states it binds on a fresh collection
Registered(c) ==
  {RegisterAll(c, order, EmptyMap).st : order \in Perms(CorrelationIds(c))}

InitOrder ==
  /\ \E S \in OrderRuleSets :
       /\ collection \in BuiltFrom(S)
       /\ \E c2 \in BuiltFrom(S) : \E st2 \in Registered(c2) :
            twin = [collection |-> c2, state |-> st2]
  /\ state \in Registered(collection)
  /\ now = 0
  /\ ret = [op |-> "init", val |-> Ok, bound |-> {}]
  /\ log = <<>>
  /\ nadds = 0
  /\ mem = NoBackend
  /\ calls = NoCalls

\* SigmaCollection::get_matches on both collections
GetMatchesBoth(event) ==
  /\ Len(log) < MaxEvents
  /\ \E prior \in Perms(DetectionMatches(collection, event)) :
     \E prior2 \in Perms(DetectionMatches(twin.collection, event)) :
       LET r == PushCorrelationMatches(collection, event, prior, state, now)
           r2 == PushCorrelationMatches(twin.collection, event, prior2, twin.state, now)
       IN  /\ state' = r.st
           /\ twin' = [twin EXCEPT !.state = r2.st]
           /\ ret' = [op |-> "get_matches", event |-> event, val |-> r.prior]
           /\ log' = Append(log, [event |-> event, time |-> now, val |-> r.prior,
                                  twin_val |-> r2.prior,
                                  registered |-> state # EmptyMap])
  /\ UNCHANGED <<collection, now, nadds, mem, calls>>

NextOrder == \E event \in StreamEvents : GetMatchesBoth(event)

SpecOrder == InitOrder /\ [][NextOrder]_vars

(***************************************************************************)
(* SpecLoad: a collection loaded from directories of rule files.  A file   *)
(* is unreadable, or malformed YAML, or holds a list of rules.             *)
(***************************************************************************)
IoError == "IoError"
ParseError == "ParseError"

RuleFile(rules) == [kind |-> "rules", rules |-> rules]
Malformed == [kind |-> "malformed", rules |-> <<>>]
Unreadable == [kind |-> "unreadable", rules |-> <<>>]

\* s.parse::<SigmaCollection>() then Into<Vec<SigmaRule>>: the file is a
\* collection of its own, solved, and its rules come out in map order
ParseFile(f) ==
  IF f.kind = "malformed" THEN {[err |-> ParseError, rules |-> <<>>]}
  ELSE UNION {
         IF o.err # Ok THEN {[err |-> ParseError, rules |-> <<>>]}
         ELSE {[err |-> Ok, rules |-> [k \in 1..Len(ord) |-> o.c.rules[ord[k]]]] :
                 ord \in Perms(DOMAIN o.c.rules)}
         : o \in TryFrom(f.rules)}

\* the map over the file contents, collected into one Result
RECURSIVE ParseAll(_)
ParseAll(files) ==
  IF files = <<>> THEN {[err |-> Ok, rules |-> <<>>]}
  ELSE UNION {
         IF p.err # Ok THEN {[err |-> ParseError, rules |-> <<>>]}
         ELSE {[err |-> r.err,
                rules |-> IF r.err = Ok THEN p.rules \o r.rules ELSE <<>>] :
                 r \in ParseAll(Tail(files))}
         : p \in ParseFile(Head(files))}

\* the for_each of load_from_dir: filters.add, then insert
RECURSIVE LoadInsertAll(_, _)
LoadInsertAll(c, rules) ==
  IF rules = <<>> THEN c
  ELSE LoadInsertAll(Insert([c EXCEPT !.filters = FilterAdd(@, Head(rules))],
                            Head(rules)),
                     Tail(rules))

\* SigmaCollection::load_from_dir: every [err, c, count] the call can end with
LoadOutcomes(c, dir) ==
  IF \E i \in 1..Len(dir) : dir[i].kind = "unreadable"
  THEN {[err |-> IoError, c |-> c, count |-> 0]}
  ELSE UNION {
         IF p.err # Ok THEN {[err |-> p.err, c |-> c, count |-> 0]}
         ELSE {[err |-> out.err, c |-> out.c,
                count |-> IF out.err = Ok THEN Len(p.rules) ELSE 0] :
                 out \in Solve(LoadInsertAll(c, p.rules))}
         : p \in ParseAll(dir)}

\* directories: files in the order glob yields them
Dirs ==
  {<<RuleFile(<<DWin>>), RuleFile(<<ECat>>)>>,
   <<RuleFile(<<DWin>>), Malformed>>,
   <<Unreadable, RuleFile(<<ECat>>)>>,
   <<RuleFile(<<DWin, CofD>>)>>,
   <<RuleFile(<<DWin>>), RuleFile(<<CofD>>)>>,
   <<RuleFile(<<DLin, ECat>>), RuleFile(<<DWin>>)>>}

\* SigmaCollection::load_from_dir
LoadFromDir(dir) ==
  /\ nadds < MaxAdds
  /\ \E out \in LoadOutcomes(collection, dir) :
       /\ collection' = out.c
       /\ ret' = [op |-> "load_from_dir", dir |-> dir, val |-> out.err,
                  count |-> out.count, before |-> collection]
       /\ state' = [id \in DOMAIN state \
                            (DOMAIN out.c.rules \ DOMAIN collection.rules) |-> state[id]]
  /\ nadds' = nadds + 1
  /\ UNCHANGED <<now, log, mem, calls, twin>>

NextLoad ==
  \/ \E dir \in Dirs : LoadFromDir(dir)
  \/ \E event \in ProbeEvents : GetDetectionMatches(event)

SpecLoad == Init /\ [][NextLoad]_vars

(***************************************************************************)
(* SpecDetect: Detection::is_match applied to detections and events drawn  *)
(* from small sets: conditions over four selections, and selections of     *)
(* several predicates, value lists, modifiers and null.                    *)
(***************************************************************************)
n_sel == <<"s", "e", "l">>
n_sel1 == <<"s", "e", "l", "1">>
n_sel2 == <<"s", "e", "l", "2">>
n_sel3 == <<"s", "e", "l", "3">>
n_other == <<"o", "t", "h", "e", "r">>

Patterns == {<<"s", "e", "l", "*">>, <<"s", "e", "l", "?">>, <<"n", "o", "*">>, <<"*">>}

FourSelections ==
  (n_sel1 :> <<Field(f_foo, <<JStr(v_bar)>>, <<>>)>>)
  @@ (n_sel2 :> <<Field(f_baz, <<JStr(v_quux)>>, <<>>)>>)
  @@ (n_sel3 :> <<Field(f_user, <<JStr(v_alice)>>, <<>>)>>)
  @@ (n_other :> <<Field(f_host, <<JStr(v_h1)>>, <<>>)>>)

XOfDetections ==
  {Detection(FourSelections, NOf(n, Identifier(pattern))) :
     n \in 0..3, pattern \in Patterns}
  \cup {Detection(FourSelections, AllOf(Identifier(pattern))) : pattern \in Patterns}

SelectionItems ==
  {<<Field(f_foo, <<JStr(v_bar)>>, <<>>), Field(f_baz, <<JStr(v_quux)>>, <<>>)>>,
   <<Field(f_foo, <<JStr(v_bar)>>, <<>>), Field(f_baz, <<JStr(v_quux)>>, <<>>),
     Field(f_user, <<JStr(v_alice)>>, <<>>)>>,
   <<Field(f_foo, <<JStr(v_bar), JStr(v_quux)>>, <<>>)>>,
   <<Field(f_foo, <<JStr(<<"a">>), JStr(<<"u">>)>>, <<"contains">>)>>,
   <<Field(f_foo, <<JStr(<<"a">>)>>, <<"contains">>)>>,
   <<Field(f_foo, <<JStr(<<"b">>), JStr(<<"q">>)>>, <<"startswith">>)>>,
   <<Field(f_foo, <<JStr(<<"r">>), JStr(<<"x">>)>>, <<"endswith">>)>>,
   <<Field(f_baz, <<JNull>>, <<>>)>>,
   <<Field(f_foo, <<JStr(v_bar)>>, <<>>), Field(f_baz, <<JNull>>, <<>>)>>}

SelectionDetections ==
  {Detection((n_sel :> items), Identifier(n_sel)) : items \in SelectionItems}

\* events: every field is absent or holds one of a few values
DetectData ==
  {[k \in ks |-> vs[k]] :
     ks \in SUBSET {f_foo, f_baz, f_user, f_host},
     vs \in [{f_foo, f_baz, f_user, f_host} ->
               {JStr(v_bar), JStr(v_quux), JStr(v_alice), JStr(v_h1), JNull}]}

DetectEvents ==
  {d \in DetectData :
     /\ f_foo \in DOMAIN d => d[f_foo] \in {JStr(v_bar), JStr(v_quux), JNull}
     /\ f_baz \in DOMAIN d => d[f_baz] \in {JStr(v_quux), JNull}
     /\ f_user \in DOMAIN d => d[f_user] = JStr(v_alice)
     /\ f_host \in DOMAIN d => d[f_host] = JStr(v_h1)}

\* Detection::is_match, called once on a detection and an event
IsMatch(d, data) ==
  /\ ret.op = "new"
  /\ ret' = [op |-> "is_match", selections |-> d.selections,
             condition |-> d.condition, data |-> data,
             results |-> [k \in DOMAIN d.selections |->
                            SelectionIsMatch(d.selections[k], data)],
             val |-> DetectionIsMatch(d, data)]
  /\ UNCHANGED <<collection, state, now, log, nadds, mem, calls, twin>>

NextDetect ==
  \E d \in XOfDetections \cup SelectionDetections : \E data \in DetectEvents :
    IsMatch(d, data)

SpecDetect == Init /\ [][NextDetect]_vars

(***************************************************************************)
(* Properties of the evaluation runs (SpecCorr).  The correlation rule of  *)
(* every fixture has id "c"; its detections are "f1" and "s2".             *)
(***************************************************************************)
TheCorrelation == collection.rules["c"]
GroupOf(i) == GroupKey(TheCorrelation, log[i].event.data)
Hit(i, id) == InSeq(id, log[i].val)
DetectionsHit(i) == {id \in {"f1", "s2"} : Hit(i, id)}

\* C1: for an event_count rule with one group-by field and gte 2, over
\* events that match the detection and carry the group field: an event
\* whose group value no earlier counted event had returns exactly [d], and
\* an event with an earlier counted event of the same group value inside
\* the timespan returns [d, c].
EventCountStream ==
  \A i \in 1..Len(log) :
    (/\ TheCorrelation.correlation_type = "event_count"
     /\ Len(TheCorrelation.group_by) = 1
     /\ Hit(i, "f1")
     /\ GroupOf(i) # <<>>)
    => LET earlier == {j \in 1..(i - 1) :
                         /\ log[j].registered
                         /\ Hit(j, "f1")
                         /\ GroupOf(j) = GroupOf(i)}
       IN  /\ (earlier = {} => log[i].val = <<"f1">>)
           /\ ((\E j \in earlier : log[i].time - log[j].time < Timespan)
                 => log[i].val = <<"f1", "c">>)

\* C1 happens: the second event of a group fires the correlation
EventCountStreamSeen ==
  /\ Len(log) >= 2
  /\ TheCorrelation.correlation_type = "event_count"
  /\ Len(TheCorrelation.group_by) = 1
  /\ log[1].registered
  /\ GroupOf(1) = GroupOf(2)
  /\ GroupOf(1) # <<>>
  /\ log[1].val = <<"f1">>
  /\ log[2].val = <<"f1", "c">>

\* C2: for a value_count rule the number compared with gte 2 is the number
\* of distinct values of the counted field seen for the group: an event
\* whose (group, value) repeats the only value seen so far returns only
\* [d], and an event that brings a value differing from one seen inside the
\* timespan returns [d, c].
ValueCountDistinct ==
  \A i \in 1..Len(log) :
    (/\ TheCorrelation.correlation_type = "value_count"
     /\ log[i].registered
     /\ Hit(i, "f1")
     /\ GroupOf(i) # <<>>
     /\ TheCorrelation.field \in DOMAIN log[i].event.data)
    => LET fld == TheCorrelation.field
           same == {j \in 1..(i - 1) :
                      /\ log[j].registered
                      /\ Hit(j, "f1")
                      /\ GroupOf(j) = GroupOf(i)
                      /\ fld \in DOMAIN log[j].event.data}
       IN  /\ ((\A j \in same : log[j].event.data[fld] = log[i].event.data[fld])
                 => log[i].val = <<"f1">>)
           /\ ((\E j \in same : /\ log[j].event.data[fld] # log[i].event.data[fld]
                                /\ log[i].time - log[j].time < Timespan)
                 => log[i].val = <<"f1", "c">>)

\* the first two events of a run are of one group, inside the timespan, on
\* registered state, for a correlation of the given type
FirstPair(type) ==
  /\ Len(log) >= 2
  /\ TheCorrelation.correlation_type = type
  /\ log[1].registered
  /\ GroupOf(1) # <<>>
  /\ GroupOf(1) = GroupOf(2)
  /\ log[2].time - log[1].time < Timespan

\* C3: for a temporal_ordered rule over [first, second] and one group, an
\* event matching only second followed by one matching only first fires the
\* correlation on neither, and first followed by second fires it on the
\* second event.
OrderedOnlyInOrder ==
  FirstPair("temporal_ordered")
  => /\ (DetectionsHit(1) = {"s2"} /\ DetectionsHit(2) = {"f1"}
           => ~Hit(1, "c") /\ ~Hit(2, "c"))
     /\ (DetectionsHit(1) = {"f1"} /\ DetectionsHit(2) = {"s2"}
           => Hit(2, "c"))

\* C4: for a temporal rule over [first, second] and one group the order of
\* arrival does not matter: of two events inside the timespan that match
\* one dependency each, the first does not fire the correlation and the
\* second, which completes the set, does.
TemporalAnyOrder ==
  FirstPair("temporal")
  => ((\/ DetectionsHit(1) = {"f1"} /\ DetectionsHit(2) = {"s2"}
       \/ DetectionsHit(1) = {"s2"} /\ DetectionsHit(2) = {"f1"})
        => ~Hit(1, "c") /\ Hit(2, "c"))

\* C5: an event that lacks any of the rule's group-by fields never fires
\* the correlation, whatever its type and however many such events came.
MissingGroupByNeverMatches ==
  \A i \in 1..Len(log) :
    (\E k \in 1..Len(TheCorrelation.group_by) :
       TheCorrelation.group_by[k] \notin DOMAIN log[i].event.data)
    => ~Hit(i, "c")

(***************************************************************************)
(* Properties of the construction runs (Spec).                             *)
(***************************************************************************)
\* the rule set the last add or try_from was asked to build
Attempted ==
  IF ret.op = "add" THEN Insert(ret.before, ret.rule) ELSE ret.attempted

Built == ret.op \in {"add", "try_from"}

\* the edges of the references of c that lead to a rule of c
DependencyEdges(c) ==
  {<<Resolve(c, c.rules[q[1]].dependencies[q[2]]), q[1]>> :
     q \in {p \in (DOMAIN c.rules) \X (1..2) :
              /\ c.rules[p[1]].kind = "correlation"
              /\ p[2] <= Len(c.rules[p[1]].dependencies)
              /\ Resolve(c, c.rules[p[1]].dependencies[p[2]]) \in DOMAIN c.rules}}

HasCycle(edges) == \E e \in edges : e[1] \in ReachableFrom(edges, {e[2]})

\* x is the id or the name of a rule of c
Present(c, x) ==
  \/ x \in DOMAIN c.rules
  \/ \E id \in DOMAIN c.rules : c.rules[id].name = Some(x)

\* some correlation of c references what is neither an id nor a name in c
Unresolved(c) ==
  \E id \in DOMAIN c.rules :
    /\ c.rules[id].kind = "correlation"
    /\ \E i \in 1..Len(c.rules[id].dependencies) :
         ~Present(c, c.rules[id].dependencies[i])

\* on every axis the event's value is absent, the rule's is absent, or the
\* two are equal
Admits(rule_ls, event_ls) ==
  /\ ~IsSome(event_ls.category) \/ ~IsSome(rule_ls.category)
       \/ event_ls.category = rule_ls.category
  /\ ~IsSome(event_ls.product) \/ ~IsSome(rule_ls.product)
       \/ event_ls.product = rule_ls.product
  /\ ~IsSome(event_ls.service) \/ ~IsSome(rule_ls.service)
       \/ event_ls.service = rule_ls.service

\* C6: a detection rule of the collection is in get_detection_matches(E)
\* iff its detection body is true on E.data and its own logsource admits
\* the event's on all three axes, whatever other rules the collection holds
\* or held.
DetectionMatchesExact ==
  ret.op = "get_detection_matches"
  => \A id \in DOMAIN collection.rules :
       collection.rules[id].kind = "detection"
       => (InSeq(id, ret.val)
             <=> /\ DetectionIsMatch(collection.rules[id].detection, ret.event.data)
                 /\ Admits(collection.rules[id].logsource, ret.event.logsource))

\* C7 as stated: add and try_from answer DependencyCycle for every rule set
\* whose references form a cycle, and the graph of the collection has none.
CyclesAreCycleErrors ==
  /\ (Built /\ HasCycle(DependencyEdges(Attempted)))
       => ret.val = DependencyCycle
  /\ ~HasCycle(collection.deps.edges)

\* C7: add and try_from refuse every rule set whose references form a
\* cycle, a self reference included: the answer is DependencyCycle when
\* every reference of the set resolves and DependencyCycle or
\* DependencyMissing when one does not, and the graph of the collection
\* never has a cycle.
CyclesAreRefused ==
  /\ (Built /\ HasCycle(DependencyEdges(Attempted)))
       => /\ ret.val \in {DependencyCycle, DependencyMissing}
          /\ (~Unresolved(Attempted) => ret.val = DependencyCycle)
  /\ ~HasCycle(collection.deps.edges)

\* C7 happens: a rule set with a cycle and no unresolved reference
CyclesAreRefusedSeen ==
  /\ Built
  /\ HasCycle(DependencyEdges(Attempted))
  /\ ~Unresolved(Attempted)
  /\ ret.val = DependencyCycle

\* C8: an add that returns an error leaves the collection as it was: the
\* rules, the name table, the filter index and the dependency graph.
AddIsAtomic ==
  (ret.op = "add" /\ ret.val # Ok) => collection = ret.before

\* C9: building a rule set in which a correlation references what is
\* neither the id nor the name of a rule of the set fails, so every
\* reference of a collection built without error names a rule it holds.
ReferencesResolve ==
  Built => /\ (Unresolved(Attempted) => ret.val # Ok)
           /\ (ret.val = Ok => ~Unresolved(collection))

\* C10: add of a rule whose id the collection already holds fails and the
\* rule stored under that id stays.
DuplicateIdRefused ==
  (ret.op = "add" /\ ret.rule.id \in DOMAIN ret.before.rules)
  => /\ ret.val # Ok
     /\ collection.rules[ret.rule.id] = ret.before.rules[ret.rule.id]

\* C11: after any add or construction every rule is fully present or fully
\* absent: the filter index lists exactly the detections of the rule map,
\* each under its current logsource value on every axis and under no
\* other, and the dependency graph holds exactly the edges from the
\* resolved dependencies of the correlations of the rule map.
FullyPresentOrAbsent ==
  /\ \A id \in collection.filters.all :
       id \in DOMAIN collection.rules /\ collection.rules[id].kind = "detection"
  /\ \A id \in DOMAIN collection.rules :
       collection.rules[id].kind = "detection"
       => /\ id \in collection.filters.all
          /\ \A k \in DOMAIN collection.filters.category :
               id \in collection.filters.category[k]
                 <=> k = collection.rules[id].logsource.category
          /\ \A k \in DOMAIN collection.filters.product :
               id \in collection.filters.product[k]
                 <=> k = collection.rules[id].logsource.product
          /\ \A k \in DOMAIN collection.filters.service :
               id \in collection.filters.service[k]
                 <=> k = collection.rules[id].logsource.service
  /\ collection.deps.edges = DependencyEdges(collection)

(***************************************************************************)
(* Properties of the evaluation runs on a chain (SpecChain).               *)
(***************************************************************************)
IsCorrelation(id) == collection.rules[id].kind = "correlation"

\* the ids the references of rule id resolve to
ResolvedDependencies(id) ==
  {Resolve(collection, collection.rules[id].dependencies[i]) :
     i \in 1..Len(collection.rules[id].dependencies)}

\* C12: in every list get_matches returns, every detection id precedes
\* every correlation id and every correlation id comes after the ids of
\* those of its dependencies that matched.
MatchOrder ==
  \A i \in 1..Len(log) :
    LET v == log[i].val
    IN  /\ \A a \in 1..Len(v) : \A b \in 1..Len(v) :
             (a < b /\ IsCorrelation(v[a])) => IsCorrelation(v[b])
        /\ \A b \in 1..Len(v) :
             IsCorrelation(v[b])
             => \A a \in 1..Len(v) :
                  v[a] \in ResolvedDependencies(v[b]) => a < b

\* C18: an event_count or value_count correlation matches only on an event
\* for which every rule it lists matched before it.
CountsOnlyWithAllDependencies ==
  \A i \in 1..Len(log) :
    LET v == log[i].val
    IN  \A b \in 1..Len(v) :
          (IsCorrelation(v[b])
             /\ collection.rules[v[b]].correlation_type \in {"event_count", "value_count"})
          => \A d \in ResolvedDependencies(v[b]) :
               \E a \in 1..(b - 1) : v[a] = d

(***************************************************************************)
(* Properties of the MemBackend (SpecMem, SpecMemBusy).                    *)
(***************************************************************************)
\* C13: with the background task scheduled fairly every increment is in
\* the end undone by one decrement: from some point on the map was
\* decremented as often as it was incremented and the count of the key is
\* zero.
EveryIncrementUndone ==
  <>[](/\ Tally(mem.incrs, BusyTarget) = Tally(mem.decrs, BusyTarget)
       /\ MemCountOf(mem.map, BusyTarget.rule_id, BusyTarget.key) = 0)

\* C14: no caller of incr ever holds the write lock, blocked on the full
\* command channel, while the background task, having taken an expired
\* entry, waits for that lock.
NoCallerBlocksTask ==
  ~(/\ mem.task.pc = "lock"
    /\ Len(mem.chan) = ChannelCapacity
    /\ \E p \in DOMAIN calls : calls[p].pc = "incr_send" /\ mem.lock = Some(p))

EventTarget == Target("c", EKey, Timespan)

\* C16: as long as no increment of an event-count key was undone, the
\* count of the key is the number of increments made, every incr returned
\* its own ordinal and every count returned the number of increments
\* made before it.
EventCountIsN ==
  /\ Tally(mem.decrs, EventTarget) = 0
       => MemCountOf(mem.map, EventTarget.rule_id, EventTarget.key)
            = Tally(mem.incrs, EventTarget)
  /\ \A p \in DOMAIN calls :
       (/\ calls[p].ret.op \in {"incr", "count"}
        /\ calls[p].ret.target = EventTarget
        /\ calls[p].ret.undone = 0)
         => calls[p].ret.val = calls[p].ret.nth

EventCountIsNSeen ==
  /\ Tally(mem.decrs, EventTarget) = 0
  /\ Tally(mem.incrs, EventTarget) = 2
  /\ \E p, q \in DOMAIN calls :
       /\ calls[p].ret.op = "incr" /\ calls[p].ret.target = EventTarget
       /\ calls[p].ret.val = 2
       /\ calls[q].ret.op = "count" /\ calls[q].ret.target = EventTarget
       /\ calls[q].ret.val = 2

\* C17: a count that follows an incr of the same key with no operation of
\* the backend in between returns the value that incr returned, for
\* event-count and for value-count keys.
CountEqualsIncr ==
  \A p \in DOMAIN calls :
    (/\ calls[p].ret.op = "count"
     /\ calls[p].ret.prev.op = "incr"
     /\ calls[p].ret.prev.target = calls[p].ret.target)
      => calls[p].ret.val = calls[p].ret.prev.val

(***************************************************************************)
(* Properties of SigmaCollection::init (SpecCorr).                         *)
(***************************************************************************)
\* C19: an init of a collection with a correlation whose state is bound
\* already returns an error, it neither panics nor succeeds, and the
\* states bound before stay bound.
SecondInitIsAnError ==
  (ret.op = "init" /\ ret.bound # {})
    => /\ ret.val \notin {Ok, "panic"}
       /\ \A id \in ret.bound : IsSome(StateOf(state, id))

(***************************************************************************)
(* Properties of concurrent get_matches calls (SpecConc).                  *)
(***************************************************************************)
\* C15: with no expiry in between, no two get_matches calls that
\* incremented the same event-count key observe the same count, and the
\* rule with condition eq 2 fires for at most one of them.
CountsObservedOnce ==
  \A i, j \in 1..Len(log) :
    (/\ i # j
     /\ log[i].incremented /\ log[j].incremented
     /\ GroupOf(i) = GroupOf(j))
      => /\ log[i].count # log[j].count
         /\ ~(InSeq("c", log[i].val) /\ InSeq("c", log[j].val))

(***************************************************************************)
(* Properties of collections built in two orders (SpecOrder).              *)
(***************************************************************************)
\* C20: two collections built from the same rules in different orders
\* return the same set of ids for every event of the same sequence.
SameMatchSets ==
  \A i \in 1..Len(log) :
    {log[i].val[k] : k \in 1..Len(log[i].val)}
      = {log[i].twin_val[k] : k \in 1..Len(log[i].twin_val)}

(***************************************************************************)
(* Properties of load_from_dir (SpecLoad).                                 *)
(***************************************************************************)
\* a file that can be read and parses, whatever order its rules are kept in
GoodFile(f) == f.kind = "rules" /\ \A o \in TryFrom(f.rules) : o.err = Ok

\* C21: a load never gives up on a bad file: after it every rule of every
\* file of the directory that can be read and parsed is in the collection,
\* and the count returned is the number of those rules.
LoadIsBestEffort ==
  ret.op = "load_from_dir"
    => /\ \A i \in 1..Len(ret.dir) :
            GoodFile(ret.dir[i])
              => \A k \in 1..Len(ret.dir[i].rules) :
                   ret.dir[i].rules[k].id \in DOMAIN collection.rules
       /\ ret.count =
            Cardinality(UNION {{<<i, ret.dir[i].rules[k].id>> :
                                  k \in 1..Len(ret.dir[i].rules)} :
                               i \in {j \in 1..Len(ret.dir) : GoodFile(ret.dir[j])}})

(***************************************************************************)
(* Properties of Detection::is_match (SpecDetect).                         *)
(***************************************************************************)
\* what a pattern with at most one wildcard, at its end, says of a name
NameFits(pattern, name) ==
  LET last == pattern[Len(pattern)]
      stem == SubSeq(pattern, 1, Len(pattern) - 1)
  IN  CASE last = "*" -> starts_with(name, stem)
        [] last = "?" -> Len(name) = Len(pattern) /\ starts_with(name, stem)
        [] OTHER -> name = pattern

TrueNames(pattern) ==
  {k \in DOMAIN ret.results : NameFits(pattern, k) /\ ret.results[k]}

\* C22: `N of pattern` is true iff at least N of the selections whose name
\* fits the pattern are true on the event; other selections never count.
NOfCounts ==
  (ret.op = "is_match" /\ ret.condition.node = "NOf")
    => (ret.val <=> Cardinality(TrueNames(ret.condition.inner.id)) >= ret.condition.n)

\* three selections fit, one of them is true: 1 of is true, 2 of is false
NOfCountsSeen ==
  /\ ret.op = "is_match" /\ ret.condition.node = "NOf"
  /\ ret.condition.n = 2
  /\ Cardinality({k \in DOMAIN ret.results : NameFits(ret.condition.inner.id, k)}) = 3
  /\ Cardinality(TrueNames(ret.condition.inner.id)) = 1
  /\ ret.results[n_other]
  /\ ~ret.val

\* C23: `all of pattern` is true iff every selection whose name fits the
\* pattern is true on the event, and so it is true when no name fits.
AllOfHolds ==
  (ret.op = "is_match" /\ ret.condition.node = "AllOf")
    => (ret.val <=> \A k \in DOMAIN ret.results :
                      NameFits(ret.condition.inner.id, k) => ret.results[k])

\* no selection name fits the pattern, no selection is true, the result is true
AllOfHoldsSeen ==
  /\ ret.op = "is_match" /\ ret.condition.node = "AllOf"
  /\ \A k \in DOMAIN ret.results :
       ~NameFits(ret.condition.inner.id, k) /\ ~ret.results[k]
  /\ ret.val

\* the call was made on a detection of the one selection sel
OneSelection == ret.op = "is_match" /\ DOMAIN ret.selections = {n_sel}
Items == ret.selections[n_sel]
FieldHolds(f) == SelectionIsMatch(<<f>>, ret.data)

ValuesAreOred ==
  (OneSelection /\ Len(Items) = 1 /\ Len(Items[1].values) > 1)
    => (ret.val <=> \E k \in 1..Len(Items[1].values) :
                      FieldHolds(Field(Items[1].key, <<Items[1].values[k]>>,
                                       Items[1].modifiers)))

\* C26: a predicate without modifiers whose value is null holds iff the
\* event lacks the field or holds null there.
NullMatchesMissingOrNull ==
  (OneSelection /\ Len(Items) = 1 /\ Items[1].values = <<JNull>>
     /\ Items[1].modifiers = <<>>)
    => (ret.val <=> \/ Items[1].key \notin DOMAIN ret.data
                    \/ ret.data[Items[1].key] = JNull)

(***************************************************************************)
(* Properties of the temporal arms of eval (SpecCorr), over the steps in   *)
(* which get_matches evaluates the registered correlation c.               *)
(***************************************************************************)
Deps == TheCorrelation.dependencies
DepKeys(i) == {Deps[i], Resolve(collection, Deps[i])}

EntryCount(counter, gk, k) ==
  IF has_entry(counter, gk, k) THEN counter.map[gk][k] ELSE 0

Timers(counter, gk, k) ==
  Cardinality({n \in 1..Len(counter.queue) : counter.queue[n].key = <<gk, k>>})

\* get_matches returns, having evaluated c on its registered state
Evaluates(types) ==
  /\ log' # log
  /\ TheCorrelation.correlation_type \in types
  /\ IsSome(StateOf(state, "c"))

\* the step wrote to the entry or the timers of the i-th dependency
Written(i) ==
  LET gk == GroupKey(TheCorrelation, log'[Len(log')].event.data)
      old == Unwrap(state["c"])
      new == Unwrap(state'["c"])
  IN  \E k \in DepKeys(i) :
        \/ EntryCount(new, gk, k) # EntryCount(old, gk, k)
        \/ Timers(new, gk, k) # Timers(old, gk, k)

\* the i-th dependency matched the event of the step
InPrior(i) == InSeq(Resolve(collection, Deps[i]), log'[Len(log')].val)

\* the i-th dependency is in prior or was in state when the step began
Observed(i) ==
  LET gk == GroupKey(TheCorrelation, log'[Len(log')].event.data)
  IN  \/ InPrior(i)
      \/ \E k \in DepKeys(i) : has_entry(Unwrap(state["c"]), gk, k)

\* C27: evaluating a temporal or temporal_ordered rule leaves the count
\* and the timers of every dependency that is not in prior as they were.
UnmatchedOnlyRead ==
  [][Evaluates({"temporal", "temporal_ordered"})
       => \A i \in 1..Len(Deps) : ~InPrior(i) => ~Written(i)]_vars

\* C28: a temporal_ordered evaluation writes the i-th dependency only if
\* that dependency and every earlier one is observed, in prior or in state.
OrderedWritesInOrder ==
  [][Evaluates({"temporal_ordered"})
       => \A i \in 1..Len(Deps) :
            Written(i) => \A j \in 1..i : Observed(j)]_vars

\* first was observed, then an event matching only second was evaluated:
\* the rule fired and both dependencies are in state
OrderedWritesInOrderSeen ==
  /\ FirstPair("temporal_ordered")
  /\ DetectionsHit(1) = {"f1"} /\ DetectionsHit(2) = {"s2"}
  /\ Hit(2, "c")
  /\ has_entry(Unwrap(state["c"]), GroupOf(2), "f1")
  /\ has_entry(Unwrap(state["c"]), GroupOf(2), "s2")

(***************************************************************************)
(* Properties of the candidates of push_correlation_matches (SpecChain).   *)
(***************************************************************************)
\* the detections that matched the event of the step: prior
PriorOfStep ==
  {id \in DOMAIN collection.rules :
     /\ collection.rules[id].kind = "detection"
     /\ InSeq(id, log'[Len(log')].val)}

\* id, or a rule that id depends on through the edges of the graph, is in
\* prior
Triggered(id) ==
  \E p \in PriorOfStep :
    id \in ReachableFrom(collection.deps.edges, {p})

\* C29: get_matches evaluates a correlation iff the rule or one of its
\* transitive dependencies in the graph is in prior: a rule that is not
\* triggered keeps its state and is not returned, and a triggered
\* event_count rule with registered state counts the event when the event
\* carries its group-by field.
OnlyCandidatesEvaluated ==
  [][log' # log
       => \A id \in CorrelationIds(collection) :
            /\ ~Triggered(id)
                 => /\ StateOf(state', id) = StateOf(state, id)
                    /\ ~InSeq(id, log'[Len(log')].val)
            /\ (/\ Triggered(id)
                /\ IsSome(StateOf(state, id))
                /\ GroupKey(collection.rules[id], log'[Len(log')].event.data) # <<>>)
                 => StateOf(state', id) # StateOf(state, id)]_vars

\* an event that matched only s2 left the counters of k1 and k2 alone, and
\* the next, which matched f1, was counted by k2, which depends on f1
\* through k1
OnlyCandidatesEvaluatedSeen ==
  /\ Len(log) = 2
  /\ log[1].registered
  /\ Hit(1, "s2") /\ ~Hit(1, "f1")
  /\ Hit(2, "f1")
  /\ Len(Unwrap(state["k1"]).queue) = 1
  /\ Len(Unwrap(state["k2"]).queue) = 1

(***************************************************************************)
(* Properties of the dependency lookup (SpecOrder).                        *)
(***************************************************************************)
\* the references of correlation id that are the id of one rule and the name
\* of another
AmbiguousReferences(id) ==
  {x \in {collection.rules[id].dependencies[i] :
            i \in 1..Len(collection.rules[id].dependencies)} :
     /\ x \in DOMAIN collection.rules
     /\ x \in DOMAIN collection.named
     /\ collection.named[x] # x}

\* C30: a reference x is resolved by id first and by name only as a
\* fallback: when x is the id of rule A and the name of another rule B, the
\* edge to the referencing correlation comes from A and not from B, and the
\* correlation is returned only for events that A matched.
ResolvedByIdFirst ==
  \A id \in CorrelationIds(collection) :
    \A x \in AmbiguousReferences(id) :
      /\ <<x, id>> \in collection.deps.edges
      /\ <<collection.named[x], id>> \notin collection.deps.edges
      /\ \A i \in 1..Len(log) : InSeq(id, log[i].val) => InSeq(x, log[i].val)

(***************************************************************************)
(* Properties of the sliding window of Counter (SpecCorr).                 *)
(***************************************************************************)
\* the group key of the event of the step
GroupOfStep == GroupKey(TheCorrelation, log'[Len(log')].event.data)

\* the earlier events that were counted for the group of the event of the
\* step
CountedBefore ==
  {j \in 1..Len(log) :
     /\ log[j].registered
     /\ Hit(j, "f1")
     /\ GroupOf(j) = GroupOfStep}

\* C31: an event_count rule with gte 2 does not fire on a matching event of
\* a group whose earlier increments have all expired and been taken off the
\* map: the event observes count 1 and only the detection is returned.
ExpiredNotCounted ==
  [][(/\ log' # log
      /\ TheCorrelation.correlation_type = "event_count"
      /\ TheCorrelation.condition = Gte2
      /\ IsSome(StateOf(state, "c"))
      /\ InSeq("f1", log'[Len(log')].val)
      /\ GroupOfStep # <<>>
      /\ CountedBefore # {}
      /\ \A k \in 1..Len(Unwrap(state["c"]).queue) :
           Unwrap(state["c"]).queue[k].key # GroupOfStep)
       => /\ log'[Len(log')].val = <<"f1">>
          /\ CounterCount(Unwrap(state'["c"]), GroupOfStep) = 1]_vars

\* the second event of a group came a timespan after the first, whose
\* increment had been expired, and did not fire the rule
ExpiredNotCountedSeen ==
  /\ Len(log) = 2
  /\ TheCorrelation.correlation_type = "event_count"
  /\ log[1].registered
  /\ Hit(1, "f1") /\ Hit(2, "f1")
  /\ GroupOf(1) # <<>>
  /\ GroupOf(1) = GroupOf(2)
  /\ log[2].time - log[1].time >= Timespan
  /\ log[2].val = <<"f1">>
  /\ Len(Unwrap(state["c"]).queue) = 1
  /\ CounterCount(Unwrap(state["c"]), GroupOf(2)) = 1

(***************************************************************************)
(* Properties of the expiry of the MemBackend (SpecMem).                   *)
(***************************************************************************)
\* the (rule, group, discriminator) entries the map holds
MapEntries(map) ==
  {<<r, g, v>> \in UNION {UNION {{<<r, g, v>> : v \in DOMAIN map[r][g]} :
                                   g \in DOMAIN map[r]} : r \in DOMAIN map} : TRUE}

\* no entry of the map has a count of zero and no group is without entries
NoEmptyEntries ==
  /\ \A e \in MapEntries(mem.map) : mem.map[e[1]][e[2]][e[3]] > 0
  /\ \A r \in DOMAIN mem.map : \A g \in DOMAIN mem.map[r] : DOMAIN mem.map[r][g] # {}

\* the entry a target addresses
EntryOf(target) ==
  <<target.rule_id, KeyInto(target.key)[1], KeyInto(target.key)[2]>>

\* C32: after every expiry the map holds no discriminator with a count of
\* zero and no group without discriminators, and the expiry left every
\* other entry, those of the same group included, with the count it had.
ExpiryKeepsOthers ==
  [][mem'.decrs # mem.decrs
       => /\ NoEmptyEntries'
          /\ \A e \in MapEntries(mem.map) \ {EntryOf(mem.task.expired)} :
               MemGet(mem'.map, e[1], e[2], e[3]) = mem.map[e[1]][e[2]][e[3]]]_vars

\* an expiry removed one discriminator of a group and the other one of the
\* group is still counted
ExpiryKeepsOthersSeen ==
  /\ Tally(mem.decrs, Target("v", VKey1, Timespan)) = 1
  /\ Tally(mem.incrs, Target("v", VKey1, Timespan)) = 1
  /\ Tally(mem.decrs, Target("v", VKey2, Timespan)) = 0
  /\ MemCountOf(mem.map, "v", VKey1) = 0
  /\ MemCountOf(mem.map, "v", VKey2) = 1

(***************************************************************************)
(* Properties of the order of expiries (SpecCounter).                      *)
(***************************************************************************)
\* C33: the expiries of one rule are applied in the order in which the incr
\* calls updated the map, also for concurrent callers: an increment made
\* later is never undone before one made earlier.
ExpiriesAreFifo ==
  \A i, j \in 1..Len(mem.undone) :
    i < j => mem.undone[i].nth < mem.undone[j].nth

(***************************************************************************)
(* Properties of the group key (SpecKey).                                  *)
(***************************************************************************)
\* the k:v entries of a GroupBy
EntriesOf(group_by) ==
  {group_by[i][1] \o <<":">> \o JsonToString(group_by[i][2]) : i \in 1..Len(group_by)}

\* s is the entries of E, each once, ascending, joined with ","
SortedJoinOf(s, E) ==
  \E o \in Perms(E) :
    /\ \A i \in 1..(Len(o) - 1) : StrLess(o[i], o[i + 1])
    /\ s = join(o, <<",">>)

\* the values the event has for the fields, as a GroupBy in the order given
PairsOf(group_by, data) == [i \in 1..Len(group_by) |-> <<group_by[i], data[group_by[i]]>>]

\* C34: the group key is the k:v entries of the group-by fields joined in
\* lexicographic order; GroupBys that list the same entries in another
\* order give the same key, and so do rules that declare the group-by
\* fields in another order, and the key eval computes for an event is the
\* key of the Key built from the event's values.
GroupKeyIsCanonical ==
  /\ ret.op = "key_into"
       => /\ SortedJoinOf(ret.val[1], EntriesOf(ret.key.group_by))
          /\ \A other \in KeyInputs :
               EntriesOf(other.group_by) = EntriesOf(ret.key.group_by)
                 => KeyInto(other)[1] = ret.val[1]
  /\ ret.op = "groupkey"
       => /\ SortedJoinOf(ret.val, EntriesOf(PairsOf(ret.group_by, ret.data)))
          /\ \A o \in Perms({ret.group_by[i] : i \in 1..Len(ret.group_by)}) :
               /\ GroupKey(CorrelationRule("c", None, "event_count", <<"f1">>,
                                           o, Gte2, <<>>), ret.data) = ret.val
               /\ KeyInto(EventCountKey(PairsOf(o, ret.data)))[1] = ret.val

\* a GroupBy of three fields listed in descending order was converted
GroupKeyIsCanonicalSeen ==
  /\ ret.op = "key_into"
  /\ Len(ret.key.group_by) = 3
  /\ StrLess(ret.key.group_by[3][1], ret.key.group_by[2][1])
  /\ StrLess(ret.key.group_by[2][1], ret.key.group_by[1][1])
  /\ ret.val[1] # KeyIntoAsDeclared(ret.key)[1]

(***************************************************************************)
(* Properties of the bookkeeping of the MemBackend (SpecMem).              *)
(***************************************************************************)
\* how many entries of a sequence satisfy Holds
Occurrences(seq, Holds(_)) == Cardinality({i \in 1..Len(seq) : Holds(seq[i])})

\* the increments of a target that sit in the command channel and in the
\* DelayQueue
Queued(target) ==
  LET InChan(x) == x = target
      InQueue(x) == x.target = target
  IN  Occurrences(mem.chan, InChan) + Occurrences(mem.queue, InQueue)

\* the increments of a target that an incr has made and not yet sent, and
\* the one the task has taken from the DelayQueue and not yet undone
InHand(target) ==
  Cardinality({p \in DOMAIN calls : calls[p].pc = "incr_send" /\ calls[p].target = target})
    + (IF mem.task.pc = "lock" /\ mem.task.expired = target THEN 1 ELSE 0)

\* C35: for every entry the stored count is the number of increments whose
\* expiry has not been applied, which are those in the command channel, in
\* the DelayQueue, in an incr that has not yet sent and in the expiry the
\* task is applying; the expiry the task is applying finds a count of at
\* least one, and an entry is absent exactly when nothing is pending.
CountIsPending ==
  /\ \A t \in mem.targets :
       /\ MemCountOf(mem.map, t.rule_id, t.key) = Tally(mem.incrs, t) - Tally(mem.decrs, t)
       /\ MemCountOf(mem.map, t.rule_id, t.key) = Queued(t) + InHand(t)
       /\ EntryOf(t) \in MapEntries(mem.map) <=> Queued(t) + InHand(t) > 0
  /\ mem.task.pc = "lock"
       => MemCountOf(mem.map, mem.task.expired.rule_id, mem.task.expired.key) >= 1

\* one increment of a key was undone, and of the two that are counted one
\* is in the channel and one in the DelayQueue
CountIsPendingSeen ==
  /\ Tally(mem.decrs, EventTarget) = 1
  /\ MemCountOf(mem.map, "c", EKey) = 2
  /\ Len(mem.chan) = 1 /\ Len(mem.queue) = 1
  /\ Queued(EventTarget) = 2

\* C35 as stated: the stored count is the number of increments in the
\* command channel plus those in the DelayQueue, in every reachable state
CountIsQueued ==
  \A t \in mem.targets : MemCountOf(mem.map, t.rule_id, t.key) = Queued(t)

(***************************************************************************)
(* Properties of the time of expiries (SpecCounter).                       *)
(***************************************************************************)
\* C36: no increment is taken off the count before the timespan of the rule
\* has passed since the incr call that made it, whatever the interleaving
\* of the callers and the background task.
NoEarlyExpiry ==
  \A i \in 1..Len(mem.undone) :
    mem.undone[i].time - mem.undone[i].at >= Timespan

\* two increments of concurrent callers were undone, the one made second
\* first, each a timespan after it was made
NoEarlyExpirySeen ==
  /\ Len(mem.undone) = 2
  /\ mem.undone[1].nth = 2
  /\ mem.undone[2].nth = 1
  /\ mem.undone[1].time = mem.undone[1].at + Timespan

(***************************************************************************)
(* Frame of incr and of the expiry of the MemBackend (SpecMem).            *)
(***************************************************************************)
\* every entry but e has in the map after the step the count it had before
OnlyEntryChanged(e) ==
  \A x \in (MapEntries(mem.map) \cup MapEntries(mem'.map)) \ {e} :
    MemGet(mem'.map, x[1], x[2], x[3]) = MemGet(mem.map, x[1], x[2], x[3])

UnmatchedEventIsInert ==
  [][(/\ log' # log
      /\ DetectionMatches(collection, log'[Len(log')].event) = {})
       => /\ log'[Len(log')].val = <<>>
          /\ state' = state]_vars

\* an event that no detection matched came after one that k1 and k2 had
\* counted, and their counters hold what they held
UnmatchedEventIsInertSeen ==
  /\ Len(log) = 2
  /\ log[1].registered
  /\ Hit(1, "f1")
  /\ log[2].val = <<>>
  /\ f_user \in DOMAIN log[1].event.data
  /\ f_user \in DOMAIN log[2].event.data
  /\ log[2].event.data[f_user] = log[1].event.data[f_user]
  /\ Len(Unwrap(state["k1"]).queue) = 1
  /\ Len(Unwrap(state["k2"]).queue) = 1

(***************************************************************************)
(* Properties of get_matches without registered state (SpecCorr).          *)
(***************************************************************************)
\* C39: a correlation whose state was not registered never matches: every
\* list get_matches returned before init holds ids of detections only.
UnregisteredNeverMatches ==
  \A i \in 1..Len(log) :
    ~log[i].registered
      => \A k \in 1..Len(log[i].val) :
           collection.rules[log[i].val[k]].kind = "detection"

\* two events of one group matched the detection of a rule that was never
\* registered, and each call returned the detection alone
UnregisteredNeverMatchesSeen ==
  /\ Len(log) = 2
  /\ ~log[1].registered /\ ~log[2].registered
  /\ state = EmptyMap
  /\ GroupOf(1) # <<>>
  /\ GroupOf(1) = GroupOf(2)
  /\ log[1].val = <<"f1">>
  /\ log[2].val = <<"f1">>

(***************************************************************************)
(* Properties of the lists returned (SpecQuiet).                           *)
(***************************************************************************)
\* C40: no list returned by get_matches or get_matches_unfiltered holds the
\* same rule id twice.
NoIdTwice ==
  /\ \A i \in 1..Len(log) :
       \A a, b \in 1..Len(log[i].val) : a # b => log[i].val[a] # log[i].val[b]
  /\ ret.op \in {"get_matches", "get_matches_unfiltered"}
       => \A a, b \in 1..Len(ret.val) : a # b => ret.val[a] # ret.val[b]

\* get_matches_unfiltered returned the detection and both correlations of
\* the chain
NoIdTwiceSeen ==
  /\ ret.op = "get_matches_unfiltered"
  /\ Len(ret.val) = 3
  /\ {ret.val[k] : k \in 1..3} = {"f1", "k1", "k2"}

====
